---- MODULE Spec2Model ----
(***************************************************************************)
(* State machine of the pulsevm_ffi database wrapper                       *)
(* (crates/pulsevm_ffi/database.hpp, api.hpp, api.cpp): the versioned      *)
(* object store, the resource-limit ledger, the permission graph and the   *)
(* contract-table engine with its cursors and range scans.                 *)
(*                                                                         *)
(* The store is one record `db` with one set of rows per object type; the  *)
(* wrapper's operations are operators that thread a store value            *)
(* S = [db, next_id, undo] through the chainbase primitives Create,        *)
(* Modify and Remove, and return the store together with the error they    *)
(* raise ("none" when they return normally).  An EOS_ASSERT that fails     *)
(* after earlier mutations leaves those mutations in place, as in the      *)
(* code: nothing rolls back except an undo session.                        *)
(***************************************************************************)
EXTENDS Integers, Sequences, FiniteSets, TLC

VARIABLES
    db,          \* object type -> set of rows (the multi-index containers)
    next_id,     \* object type -> next object id to hand out
    undo_stack,  \* stack of undo states, innermost last
    sessions,    \* live session handles returned by create_undo_session
    revision,    \* the checkpoint counter revision() returns
    cache,       \* the caller-held key-value iterator cache
    last,        \* the last call: operation, arguments, error, return value
    hist         \* history kept for the properties below

vars == <<db, next_id, undo_stack, sessions, revision, cache, last, hist>>

NULL == -1

(***************************************************************************)
(* Bounds of the model.                                                    *)
(***************************************************************************)
MaxTableIds == 2      \* table ids handed out
MaxRowIds == 2        \* key-value row ids handed out
MaxKey == 2           \* primary keys 1..MaxKey
MaxCache == 2         \* rows held by the iterator cache in SpecCursor

Types ==
    {"table_id", "key_value", "index64", "permission", "permission_usage",
     "resource_limits", "resource_usage", "resource_limits_state",
     "resource_limits_config", "protocol_state", "account", "permission_link",
     "account_metadata", "code", "dynamic_global_property"}

EmptyDb == [T \in Types |-> {}]

ZeroIds == [T \in Types |-> 0]

(***************************************************************************)
(* chainbase: create / modify / remove with unique indices and undo log.   *)
(***************************************************************************)

\* The keys of the unique indices of a row other than by_id.
UniqueKeys(T, r) ==
    CASE T = "table_id" -> {<<"by_code_scope_table", r.code, r.scope, r.table>>}
      [] T = "key_value" -> {<<"by_scope_primary", r.t_id, r.primary_key>>}
      [] T = "index64" -> {<<"by_primary", r.t_id, r.primary_key>>}
      [] T = "permission" -> {<<"by_owner", r.owner, r.perm_name>>}
      [] T = "resource_limits" -> {<<"by_owner", r.pending, r.owner>>}
      [] T = "resource_usage" -> {<<"by_owner", r.owner>>}
      [] T = "account" -> {<<"by_name", r.name>>}
      [] T = "account_metadata" -> {<<"by_name", r.name>>}
      [] T = "code" -> {<<"by_code_hash", r.code_hash, r.vm_type, r.vm_version>>}
      [] T = "permission_link" -> {<<"by_action_name", r.account, r.code, r.message_type>>}
      [] OTHER -> {}

\* Append a reversal record to the innermost undo state, if there is one.
Log(undo, e) ==
    IF Len(undo) = 0 THEN undo
    ELSE [undo EXCEPT ![Len(undo)].log = Append(@, e)]

Has(S, T, id) == \E r \in S.db[T] : r.id = id

Get(S, T, id) == CHOOSE r \in S.db[T] : r.id = id

\* create<T>: the row gets the next id; a collision on a unique index throws
\* and leaves the store as it was.
Create(S, T, r) ==
    LET row == [r EXCEPT !.id = S.next_id[T]]
    IN  IF \E x \in S.db[T] : UniqueKeys(T, x) \cap UniqueKeys(T, row) # {}
        THEN [S |-> S, ok |-> FALSE, row |-> row]
        ELSE [S |-> [db |-> [S.db EXCEPT ![T] = @ \cup {row}],
                     next_id |-> [S.next_id EXCEPT ![T] = @ + 1],
                     undo |-> Log(S.undo, [type |-> T, op |-> "create", row |-> row])],
              ok |-> TRUE, row |-> row]

\* modify: the row with this id is replaced by new (same id).
Modify(S, T, id, new) ==
    LET old == Get(S, T, id)
    IN  [db |-> [S.db EXCEPT ![T] = (@ \ {old}) \cup {new}],
         next_id |-> S.next_id,
         undo |-> Log(S.undo, [type |-> T, op |-> "modify", row |-> old])]

\* remove: the row with this id is erased from every index.
Remove(S, T, id) ==
    LET old == Get(S, T, id)
    IN  [db |-> [S.db EXCEPT ![T] = @ \ {old}],
         next_id |-> S.next_id,
         undo |-> Log(S.undo, [type |-> T, op |-> "remove", row |-> old])]

Store == [db |-> db, next_id |-> next_id, undo |-> undo_stack]

\* The store after a call.
Put(S) ==
    /\ db' = S.db
    /\ next_id' = S.next_id
    /\ undo_stack' = S.undo

(***************************************************************************)
(* The key-value iterator cache.  Iterator i >= 0 is entry i+1 of objs (a  *)
(* row id, or NULL once removed); the end iterator of the k-th cached      *)
(* table is -(k+1), so the first cached table has end iterator -2.         *)
(***************************************************************************)
EmptyCache == [tables |-> <<>>, objs |-> <<>>]

IndexOf(seq, x) == CHOOSE k \in 1..Len(seq) : seq[k] = x

InSeq(seq, x) == \E k \in 1..Len(seq) : seq[k] = x

\* cache_table: [cache, ret] with ret the table's end iterator.
cache_table(c, tab) ==
    IF InSeq(c.tables, tab.id)
    THEN [cache |-> c, ret |-> -(IndexOf(c.tables, tab.id) + 1)]
    ELSE [cache |-> [c EXCEPT !.tables = Append(@, tab.id)],
          ret |-> -(Len(c.tables) + 2)]

\* add: the iterator of a row, a new one unless the row is cached already.
cache_add(c, obj) ==
    IF InSeq(c.objs, obj.id)
    THEN [cache |-> c, ret |-> IndexOf(c.objs, obj.id) - 1]
    ELSE [cache |-> [c EXCEPT !.objs = Append(@, obj.id)], ret |-> Len(c.objs)]

\* get: the error dereferencing the iterator raises, "none" if it is live.
cache_get_err(c, iterator) ==
    IF iterator = -1 THEN "invalid_table_iterator"
    ELSE IF iterator < 0 THEN "table_operation_not_permitted"
    ELSE IF iterator >= Len(c.objs) THEN "invalid_table_iterator"
    ELSE IF c.objs[iterator + 1] = NULL THEN "table_operation_not_permitted"
    ELSE "none"

cache_get(S, c, iterator) == Get(S, "key_value", c.objs[iterator + 1])

cache_remove(c, iterator) == [c EXCEPT !.objs[iterator + 1] = NULL]

get_end_iterator_by_table_id(c, tid) == -(IndexOf(c.tables, tid) + 1)

\* get_end_iterator_by_table_id with its assertion that the table is cached.
end_iterator_of(c, tid) ==
    IF InSeq(c.tables, tid)
    THEN [cache |-> c, ret |-> get_end_iterator_by_table_id(c, tid), err |-> "none"]
    ELSE [cache |-> c, ret |-> NULL, err |-> "table_not_in_cache"]

\* find_table_by_end_iterator: the cached table id, NULL if ei names none.
find_table_by_end_iterator(c, ei) ==
    IF ei < -1 /\ -ei - 1 <= Len(c.tables) THEN c.tables[-ei - 1] ELSE NULL

(***************************************************************************)
(* Contract tables: database.hpp 518-573, 893-911.                         *)
(***************************************************************************)
find_table(S, code, scope, table) ==
    LET m == {t \in S.db["table_id"] :
                 t.code = code /\ t.scope = scope /\ t.table = table}
    IN  IF m = {} THEN NULL ELSE (CHOOSE t \in m : TRUE).id

create_table(S, code, scope, table, payer) ==
    LET c == Create(S, "table_id",
                    [id |-> 0, code |-> code, scope |-> scope, table |-> table,
                     payer |-> payer, count |-> 0])
    IN  [S |-> c.S, err |-> IF c.ok THEN "none" ELSE "duplicate_key", ret |-> c.row.id]

\* create_key_value_object without the check of the payer.
create_key_value_object_any_payer(S, tab_id, payer, id, buffer) ==
    LET c == Create(S, "key_value",
                    [id |-> 0, t_id |-> tab_id, primary_key |-> id,
                     payer |-> payer, value |-> buffer])
    IN  IF ~c.ok THEN [S |-> S, err |-> "duplicate_key"]
        ELSE LET tab == Get(c.S, "table_id", tab_id)
             IN  [S |-> Modify(c.S, "table_id", tab_id,
                               [tab EXCEPT !.count = @ + 1]),
                  err |-> "none"]

create_key_value_object(S, tab_id, payer, id, buffer) ==
    IF payer = 0 THEN [S |-> S, err |-> "invalid_table_payer"]
    ELSE LET c == Create(S, "key_value",
                         [id |-> 0, t_id |-> tab_id, primary_key |-> id,
                          payer |-> payer, value |-> buffer])
         IN  IF ~c.ok THEN [S |-> S, err |-> "duplicate_key"]
             ELSE LET tab == Get(c.S, "table_id", tab_id)
                  IN  [S |-> Modify(c.S, "table_id", tab_id,
                                    [tab EXCEPT !.count = @ + 1]),
                       err |-> "none"]

update_key_value_object(S, obj_id, payer, buffer) ==
    LET obj == Get(S, "key_value", obj_id)
    IN  [S |-> Modify(S, "key_value", obj_id,
                      [obj EXCEPT !.value = buffer, !.payer = payer]),
         err |-> "none"]

remove_table(S, tab_id) == Remove(S, "table_id", tab_id)

db_find_i64(S, c, code, scope, table, id) ==
    LET tid == find_table(S, code, scope, table)
    IN  IF tid = NULL THEN [cache |-> c, ret |-> -1]
        ELSE LET ct == cache_table(c, Get(S, "table_id", tid))
                 m == {r \in S.db["key_value"] : r.t_id = tid /\ r.primary_key = id}
             IN  IF m = {} THEN ct
                 ELSE cache_add(ct.cache, CHOOSE r \in m : TRUE)

\* db_remove_i64 without the decrement of the table's row count.
db_remove_i64_keeps_count(S, c, iterator, receiver) ==
    IF cache_get_err(c, iterator) # "none"
    THEN [S |-> S, cache |-> c, err |-> cache_get_err(c, iterator), t_id |-> NULL]
    ELSE LET obj == cache_get(S, c, iterator)
             table_obj == Get(S, "table_id", obj.t_id)
         IN  IF table_obj.code # receiver
             THEN [S |-> S, cache |-> c, err |-> "table_access_violation",
                   t_id |-> obj.t_id]
             ELSE LET S2 == Remove(S, "key_value", obj.id)
                      S3 == IF table_obj.count = 0
                            THEN remove_table(S2, table_obj.id) ELSE S2
                  IN  [S |-> S3, cache |-> cache_remove(c, iterator),
                       err |-> "none", t_id |-> obj.t_id]

db_remove_i64(S, c, iterator, receiver) ==
    IF cache_get_err(c, iterator) # "none"
    THEN [S |-> S, cache |-> c, err |-> cache_get_err(c, iterator), t_id |-> NULL]
    ELSE LET obj == cache_get(S, c, iterator)
             table_obj == Get(S, "table_id", obj.t_id)
         IN  IF table_obj.code # receiver
             THEN [S |-> S, cache |-> c, err |-> "table_access_violation",
                   t_id |-> obj.t_id]
             ELSE LET S1 == Modify(S, "table_id", table_obj.id,
                                   [table_obj EXCEPT !.count = @ - 1])
                      S2 == Remove(S1, "key_value", obj.id)
                      S3 == IF Get(S2, "table_id", table_obj.id).count = 0
                            THEN remove_table(S2, table_obj.id) ELSE S2
                  IN  [S |-> S3, cache |-> cache_remove(c, iterator),
                       err |-> "none", t_id |-> obj.t_id]

(***************************************************************************)
(* Cursors over the shared by_scope_primary index, ordered by              *)
(* (t_id, primary_key): database.hpp 913-993.                              *)
(***************************************************************************)
KeyLess(a, b) ==
    a.t_id < b.t_id \/ (a.t_id = b.t_id /\ a.primary_key < b.primary_key)

\* The first row of a non-empty set of rows in index order.
First(rows) == CHOOSE r \in rows : \A x \in rows : x = r \/ KeyLess(r, x)

\* The last row of a non-empty set of rows in index order.
Last(rows) == CHOOSE r \in rows : \A x \in rows : x = r \/ KeyLess(x, r)

\* ++itr and --itr from a row: the set is empty at idx.end() / before begin.
After(S, obj) == {r \in S.db["key_value"] : KeyLess(obj, r)}

Before(S, obj) == {r \in S.db["key_value"] : KeyLess(r, obj)}

\* idx.lower_bound(make_tuple(tid, id)) and idx.upper_bound(make_tuple(tid, id)).
LowerBound(S, tid, id) ==
    {r \in S.db["key_value"] :
        r.t_id > tid \/ (r.t_id = tid /\ r.primary_key >= id)}

UpperBound(S, tid, id) ==
    {r \in S.db["key_value"] :
        r.t_id > tid \/ (r.t_id = tid /\ r.primary_key > id)}

\* idx.upper_bound(tid): the rows of all later tables.
UpperBoundTable(S, tid) == {r \in S.db["key_value"] : r.t_id > tid}

NoRet(c, e) == [cache |-> c, ret |-> NULL, err |-> e]

\* db_next_i64 that stops only at the end of the whole index.
db_next_i64_no_table_check(S, c, iterator) ==
    IF iterator < -1 THEN [cache |-> c, ret |-> -1, err |-> "none"]
    ELSE IF cache_get_err(c, iterator) # "none"
    THEN NoRet(c, cache_get_err(c, iterator))
    ELSE LET obj == cache_get(S, c, iterator)
             rest == After(S, obj)
         IN  IF rest = {}
             THEN end_iterator_of(c, obj.t_id)
             ELSE cache_add(c, First(rest)) @@ [err |-> "none"]

db_next_i64(S, c, iterator) ==
    IF iterator < -1 THEN [cache |-> c, ret |-> -1, err |-> "none"]
    ELSE IF cache_get_err(c, iterator) # "none"
    THEN NoRet(c, cache_get_err(c, iterator))
    ELSE LET obj == cache_get(S, c, iterator)
             rest == After(S, obj)
         IN  IF rest = {} \/ First(rest).t_id # obj.t_id
             THEN end_iterator_of(c, obj.t_id)
             ELSE cache_add(c, First(rest)) @@ [err |-> "none"]

db_previous_i64(S, c, iterator) ==
    IF iterator < -1
    THEN LET tab == find_table_by_end_iterator(c, iterator)
         IN  IF tab = NULL THEN NoRet(c, "invalid_table_iterator")
             ELSE LET upper == UpperBoundTable(S, tab)
                      front == S.db["key_value"] \ upper
                  IN  IF front = {} THEN [cache |-> c, ret |-> -1, err |-> "none"]
                      ELSE IF Last(front).t_id # tab
                      THEN [cache |-> c, ret |-> -1, err |-> "none"]
                      ELSE cache_add(c, Last(front)) @@ [err |-> "none"]
    ELSE IF cache_get_err(c, iterator) # "none"
    THEN NoRet(c, cache_get_err(c, iterator))
    ELSE LET obj == cache_get(S, c, iterator)
             front == Before(S, obj)
         IN  IF front = {} THEN [cache |-> c, ret |-> -1, err |-> "none"]
             ELSE IF Last(front).t_id # obj.t_id
             THEN [cache |-> c, ret |-> -1, err |-> "none"]
             ELSE cache_add(c, Last(front)) @@ [err |-> "none"]

db_end_i64(S, c, code, scope, table) ==
    LET tid == find_table(S, code, scope, table)
    IN  IF tid = NULL THEN [cache |-> c, ret |-> -1]
        ELSE cache_table(c, Get(S, "table_id", tid))

db_lowerbound_i64(S, c, code, scope, table, id) ==
    LET tid == find_table(S, code, scope, table)
    IN  IF tid = NULL THEN [cache |-> c, ret |-> -1]
        ELSE LET ct == cache_table(c, Get(S, "table_id", tid))
                 rest == LowerBound(S, tid, id)
             IN  IF rest = {} THEN ct
                 ELSE IF First(rest).t_id # tid THEN ct
                 ELSE cache_add(ct.cache, First(rest))

db_upperbound_i64(S, c, code, scope, table, id) ==
    LET tid == find_table(S, code, scope, table)
    IN  IF tid = NULL THEN [cache |-> c, ret |-> -1]
        ELSE LET ct == cache_table(c, Get(S, "table_id", tid))
                 rest == UpperBound(S, tid, id)
             IN  IF rest = {} THEN ct
                 ELSE IF First(rest).t_id # tid THEN ct
                 ELSE cache_add(ct.cache, First(rest))

(***************************************************************************)
(* Inputs.                                                                 *)
(***************************************************************************)
Codes == {1, 2}          \* contract accounts
Scope == 1
TableName == 16          \* a table name with its low four bits clear
Payers == {0, 1}         \* 0 is the null payer
Keys == 1..MaxKey
Buffers == {0, 1}        \* row payloads

NoCall == [op |-> "init", err |-> "none"]

(***************************************************************************)
(* SpecTable: primary-key rows and the row count of their tables.          *)
(***************************************************************************)
InitTable ==
    /\ db = EmptyDb
    /\ next_id = ZeroIds
    /\ undo_stack = <<>>
    /\ sessions = <<>>
    /\ revision = 0
    /\ cache = EmptyCache
    /\ last = NoCall
    /\ hist = <<>>

CreateTable ==
    \E code \in Codes, payer \in Payers \ {0} :
        /\ next_id["table_id"] < MaxTableIds
        /\ LET R == create_table(Store, code, Scope, TableName, payer)
           IN  /\ Put(R.S)
               /\ last' = [op |-> "create_table", err |-> R.err]
        /\ UNCHANGED <<sessions, cache, hist, revision>>

CreateRow ==
    \E tab \in db["table_id"], payer \in Payers, id \in Keys :
        /\ next_id["key_value"] < MaxRowIds
        /\ LET R == create_key_value_object(Store, tab.id, payer, id, 0)
           IN  /\ Put(R.S)
               /\ last' = [op |-> "create_key_value_object", err |-> R.err,
                           t_id |-> tab.id, payer |-> payer,
                           primary_key |-> id, pre_count |-> tab.count]
        /\ UNCHANGED <<sessions, cache, hist, revision>>

FindRow ==
    \E code \in Codes, id \in Keys :
        /\ LET R == db_find_i64(Store, cache, code, Scope, TableName, id)
           IN  /\ cache' = R.cache
               /\ last' = [op |-> "db_find_i64", err |-> "none", ret |-> R.ret]
        /\ UNCHANGED <<db, next_id, undo_stack, sessions, hist, revision>>

RemoveRow ==
    \E iterator \in -2..(Len(cache.objs) - 1), receiver \in Codes :
        /\ LET R == db_remove_i64(Store, cache, iterator, receiver)
           IN  /\ Put(R.S)
               /\ cache' = R.cache
               /\ last' = [op |-> "db_remove_i64", err |-> R.err, t_id |-> R.t_id,
                           pre_count |-> IF R.t_id = NULL THEN 0
                                         ELSE Get(Store, "table_id", R.t_id).count]
        /\ UNCHANGED <<sessions, hist, revision>>

\* A new action starts with a fresh iterator cache.
NewCache ==
    /\ cache # EmptyCache
    /\ cache' = EmptyCache
    /\ last' = [op |-> "new_key_value_iterator_cache", err |-> "none"]
    /\ UNCHANGED <<db, next_id, undo_stack, sessions, hist, revision>>

NextTable == CreateTable \/ CreateRow \/ FindRow \/ RemoveRow \/ NewCache

SpecTable == InitTable /\ [][NextTable]_vars

RowsOf(tid) == {r \in db["key_value"] : r.t_id = tid}

\* C10: a table's count is the number of its rows, and removing a table's last
\* row removes the table: after db_remove_i64 the table of the removed row is
\* gone exactly when the row was its last one, and has count > 0 otherwise.
C10_CountIsRowCount ==
    /\ \A t \in db["table_id"] : t.count = Cardinality(RowsOf(t.id))
    /\ (last.op = "db_remove_i64" /\ last.err = "none") =>
         /\ \A t \in db["table_id"] : t.id = last.t_id => t.count > 0
         /\ (last.pre_count = 1) <=> ~(\E u \in db["table_id"] : u.id = last.t_id)

\* A table's last row has just been removed, and with it the table.
C10_Witness ==
    /\ last.op = "db_remove_i64"
    /\ last.err = "none"
    /\ last.pre_count = 1
    /\ \E t \in db["table_id"] : t.count = 1

(***************************************************************************)
(* SpecCursor: the cursor operations over a store drawn from bounded sets: *)
(* tables for any subset of Codes, any rows in them.  Code 3 never has a   *)
(* table.  Row ids run against the key order.                              *)
(***************************************************************************)
NoTableCode == 3

CursorCodes == Codes \cup {NoTableCode}

TabIdOf(code) == code - 1

RowIdOf(code, key) == (MaxKey - key) * 4 + code

CursorDb(present, keys) ==
    [EmptyDb EXCEPT
        !["table_id"] =
            {[id |-> TabIdOf(code), code |-> code, scope |-> Scope,
              table |-> TableName, payer |-> 1,
              count |-> Cardinality({k \in keys : k[1] = code})] : code \in present},
        !["key_value"] =
            {[id |-> RowIdOf(k[1], k[2]), t_id |-> TabIdOf(k[1]),
              primary_key |-> k[2], payer |-> 1, value |-> 0] : k \in keys}]

InitCursor ==
    /\ \E present \in SUBSET Codes :
         \E keys \in SUBSET (present \X Keys) :
            db = CursorDb(present, keys)
    /\ next_id = [ZeroIds EXCEPT !["table_id"] = 4, !["key_value"] = 4 * MaxKey + 4]
    /\ undo_stack = <<>>
    /\ sessions = <<>>
    /\ revision = 0
    /\ cache = EmptyCache
    /\ last = NoCall
    /\ hist = <<>>

\* The cache after a cursor call, within the model's bound on its size.
PutCache(R) ==
    /\ Len(R.cache.objs) <= MaxCache
    /\ cache' = R.cache
    /\ UNCHANGED <<db, next_id, undo_stack, sessions, hist, revision>>

CursorFind ==
    \E code \in CursorCodes, id \in Keys :
        LET R == db_find_i64(Store, cache, code, Scope, TableName, id)
        IN  /\ PutCache(R)
            /\ last' = [op |-> "db_find_i64", err |-> "none", ret |-> R.ret,
                        code |-> code, id |-> id]

CursorLowerbound ==
    \E code \in CursorCodes, id \in Keys :
        LET R == db_lowerbound_i64(Store, cache, code, Scope, TableName, id)
        IN  /\ PutCache(R)
            /\ last' = [op |-> "db_lowerbound_i64", err |-> "none", ret |-> R.ret,
                        code |-> code, id |-> id]

CursorUpperbound ==
    \E code \in CursorCodes, id \in Keys :
        LET R == db_upperbound_i64(Store, cache, code, Scope, TableName, id)
        IN  /\ PutCache(R)
            /\ last' = [op |-> "db_upperbound_i64", err |-> "none", ret |-> R.ret,
                        code |-> code, id |-> id]

CursorEnd ==
    \E code \in CursorCodes :
        LET R == db_end_i64(Store, cache, code, Scope, TableName)
        IN  /\ PutCache(R)
            /\ last' = [op |-> "db_end_i64", err |-> "none", ret |-> R.ret,
                        code |-> code]

Iterators == (-(Len(cache.tables) + 2))..Len(cache.objs)

CursorNext ==
    \E iterator \in Iterators :
        LET R == db_next_i64(Store, cache, iterator)
        IN  /\ PutCache(R)
            /\ last' = [op |-> "db_next_i64", err |-> R.err, ret |-> R.ret,
                        it |-> iterator]

CursorPrevious ==
    \E iterator \in Iterators :
        LET R == db_previous_i64(Store, cache, iterator)
        IN  /\ PutCache(R)
            /\ last' = [op |-> "db_previous_i64", err |-> R.err, ret |-> R.ret,
                        it |-> iterator]

NextCursor ==
    \/ CursorFind \/ CursorLowerbound \/ CursorUpperbound \/ CursorEnd
    \/ CursorNext \/ CursorPrevious \/ NewCache

SpecCursor == InitCursor /\ [][NextCursor]_vars

\* What a handle of the cache denotes.
RowAt(it) == Get(Store, "key_value", cache.objs[it + 1])

IsRow(it) == it >= 0 /\ it < Len(cache.objs) /\ cache.objs[it + 1] # NULL

IsEndOf(it, tid) == it < -1 /\ find_table_by_end_iterator(cache, it) = tid

TableOfCode(code) ==
    {t.id : t \in {u \in db["table_id"] :
                      u.code = code /\ u.scope = Scope /\ u.table = TableName}}

\* ret is the handle of the row of table tid with the smallest key among
\* rows, or tid's end iterator when rows is empty.
IsSmallestOrEnd(ret, tid, rows) ==
    IF rows = {} THEN IsEndOf(ret, tid)
    ELSE /\ IsRow(ret)
         /\ RowAt(ret) \in rows
         /\ \A r \in rows : RowAt(ret).primary_key <= r.primary_key

\* ret is the handle of the row with the largest key among rows, or -1.
IsLargestOrNone(ret, rows) ==
    IF rows = {} THEN ret = -1
    ELSE /\ IsRow(ret)
         /\ RowAt(ret) \in rows
         /\ \A r \in rows : RowAt(ret).primary_key >= r.primary_key

C3_Lookup(qualifies(_, _)) ==
    LET tabs == TableOfCode(last.code)
    IN  IF tabs = {} THEN last.ret = -1
        ELSE \A tid \in tabs :
                IsSmallestOrEnd(last.ret, tid,
                                {r \in RowsOf(tid) : qualifies(r.primary_key, last.id)})

KeyEq(k, id) == k = id

KeyGeq(k, id) == k >= id

KeyGt(k, id) == k > id

\* C3: every cursor operation stays inside the addressed table.  next from a
\* row of T gives T's row with the next larger key or T's end iterator;
\* previous from a row gives T's row with the next smaller key or -1, and from
\* T's end iterator T's last row or -1; find / lowerbound / upperbound give -1
\* for a missing table, else the first qualifying row of T or T's end iterator.
C3_CursorsStayInTable ==
    /\ (last.op = "db_find_i64") => C3_Lookup(KeyEq)
    /\ (last.op = "db_lowerbound_i64") => C3_Lookup(KeyGeq)
    /\ (last.op = "db_upperbound_i64") => C3_Lookup(KeyGt)
    /\ (last.op = "db_next_i64" /\ last.it >= 0 /\ last.err = "none") =>
          LET o == RowAt(last.it)
          IN  IsSmallestOrEnd(last.ret, o.t_id,
                              {r \in RowsOf(o.t_id) : r.primary_key > o.primary_key})
    /\ (last.op = "db_previous_i64" /\ last.it >= 0 /\ last.err = "none") =>
          LET o == RowAt(last.it)
          IN  IsLargestOrNone(last.ret,
                              {r \in RowsOf(o.t_id) : r.primary_key < o.primary_key})
    /\ (last.op = "db_previous_i64" /\ last.it < -1 /\ last.err = "none") =>
          IsLargestOrNone(last.ret,
                          RowsOf(find_table_by_end_iterator(cache, last.it)))

\* db_next_i64 from the last row of a table stopped at that table's end
\* iterator although a row of a later table follows it in the index.
C3_Witness ==
    /\ last.op = "db_next_i64"
    /\ last.err = "none"
    /\ last.it >= 0
    /\ last.ret < -1
    /\ \E r \in db["key_value"] : r.t_id > RowAt(last.it).t_id

(***************************************************************************)
(* Resource limits: per-account limits (active and pending rows), usage    *)
(* rows, and the state and config singletons.                              *)
(***************************************************************************)

\* Width of the 64-bit counters, scaled; int64_t and uint64_t keep their
\* relation (UINT64_MAX = 2 * INT64_MAX + 1).
WordBits == 4

UINT64_MAX == 2^WordBits - 1

INT64_MAX == 2^(WordBits - 1) - 1

INT64_MIN == -(2^(WordBits - 1))

\* Default member values of resource_limits_object: -1 is "unlimited".
DefaultLimits == [ram_bytes |-> -1, net_weight |-> -1, cpu_weight |-> -1]

\* find<resource_limits_object, by_owner>(make_tuple(pending, owner)), as a set.
find_limits(S, pending, account) ==
    {r \in S.db["resource_limits"] : r.pending = pending /\ r.owner = account}

find_usage(S, account) == {r \in S.db["resource_usage"] : r.owner = account}

TheOne(set) == CHOOSE r \in set : TRUE

ZeroAccumulator == [last_ordinal |-> 0, value_ex |-> 0]

initialize_account_resource_limits(S, account_name) ==
    LET c1 == Create(S, "resource_limits",
                     [id |-> 0, owner |-> account_name, pending |-> FALSE] @@ DefaultLimits)
        c2 == Create(c1.S, "resource_usage",
                     [id |-> 0, owner |-> account_name, net_usage |-> ZeroAccumulator,
                      cpu_usage |-> ZeroAccumulator, ram_usage |-> 0])
    IN  IF ~c1.ok THEN [S |-> S, err |-> "logic_error"]
        ELSE IF ~c2.ok THEN [S |-> c1.S, err |-> "logic_error"]
        ELSE [S |-> c2.S, err |-> "none"]

\* get_account_limits: the pending row if there is one, else the active row.
get_account_limits_active_first(S, account) ==
    LET pending_buo == find_limits(S, TRUE, account)
        buo == find_limits(S, FALSE, account)
        row == IF buo # {} THEN TheOne(buo) ELSE TheOne(pending_buo)
    IN  IF pending_buo = {} /\ buo = {}
        THEN [err |-> "out_of_range"] @@ DefaultLimits
        ELSE [err |-> "none", ram_bytes |-> row.ram_bytes,
              net_weight |-> row.net_weight, cpu_weight |-> row.cpu_weight]

get_account_limits(S, account) ==
    LET pending_buo == find_limits(S, TRUE, account)
        buo == find_limits(S, FALSE, account)
        row == IF pending_buo # {} THEN TheOne(pending_buo) ELSE TheOne(buo)
    IN  IF pending_buo = {} /\ buo = {}
        THEN [err |-> "out_of_range"] @@ DefaultLimits
        ELSE [err |-> "none", ram_bytes |-> row.ram_bytes,
              net_weight |-> row.net_weight, cpu_weight |-> row.cpu_weight]

\* set_account_limits writing the values into the active row.
set_account_limits_writing_active(S, account, ram_bytes, net_weight, cpu_weight) ==
    LET active == find_limits(S, FALSE, account)
        limits == TheOne(active)
        decreased_limit == ram_bytes >= 0
                           /\ (limits.ram_bytes < 0 \/ ram_bytes < limits.ram_bytes)
    IN  IF active = {}
        THEN [S |-> S, err |-> "out_of_range", ret |-> FALSE]
        ELSE [S |-> Modify(S, "resource_limits", limits.id,
                           [limits EXCEPT !.ram_bytes = ram_bytes,
                                          !.net_weight = net_weight,
                                          !.cpu_weight = cpu_weight]),
              err |-> "none", ret |-> decreased_limit]

\* set_account_limits: find or create the pending row (a copy of the active
\* row), then overwrite its three values; returns decreased_limit.
set_account_limits(S, account, ram_bytes, net_weight, cpu_weight) ==
    LET pending_limits == find_limits(S, TRUE, account)
        active == find_limits(S, FALSE, account)
        S1 == IF pending_limits = {}
              THEN Create(S, "resource_limits",
                          [TheOne(active) EXCEPT !.pending = TRUE]).S
              ELSE S
        limits == TheOne(find_limits(S1, TRUE, account))
        decreased_limit == ram_bytes >= 0
                           /\ (limits.ram_bytes < 0 \/ ram_bytes < limits.ram_bytes)
    IN  IF pending_limits = {} /\ active = {}
        THEN [S |-> S, err |-> "out_of_range", ret |-> FALSE]
        ELSE [S |-> Modify(S1, "resource_limits", limits.id,
                           [limits EXCEPT !.ram_bytes = ram_bytes,
                                          !.net_weight = net_weight,
                                          !.cpu_weight = cpu_weight]),
              err |-> "none", ret |-> decreased_limit]

\* update_state_and_value: guarded subtract of the old value, guarded add of
\* the pending value.  A failing guard throws with what was already written
\* through the references left in place.
update_state_and_value_no_revert(total, value, pending_value) ==
    LET overflow == pending_value > 0 /\ UINT64_MAX - total < pending_value
        t2 == IF pending_value > 0 /\ ~overflow THEN total + pending_value ELSE total
    IN  [total |-> t2, value |-> IF overflow THEN value ELSE pending_value,
         ok |-> ~overflow]

update_state_and_value(total, value, pending_value) ==
    LET underflow == value > 0 /\ total < value
        t1 == IF value > 0 /\ ~underflow THEN total - value ELSE total
        overflow == ~underflow /\ pending_value > 0 /\ UINT64_MAX - t1 < pending_value
        t2 == IF pending_value > 0 /\ ~underflow /\ ~overflow
              THEN t1 + pending_value ELSE t1
    IN  [total |-> t2,
         value |-> IF underflow \/ overflow THEN value ELSE pending_value,
         ok |-> ~(underflow \/ overflow)]

\* The loop of process_account_limit_updates: the first pending row in
\* by_owner order is folded into its active row and removed, until none is
\* left.  rso is the state object as the enclosing modify sees it.
RECURSIVE process_pending(_, _)
process_pending(S, rso) ==
    LET pend == {r \in S.db["resource_limits"] : r.pending}
    IN  IF pend = {} THEN [S |-> S, rso |-> rso, err |-> "none"]
        ELSE
          LET itr == CHOOSE r \in pend : \A q \in pend : r.owner <= q.owner
              act == find_limits(S, FALSE, itr.owner)
          IN  IF act = {} THEN [S |-> S, rso |-> rso, err |-> "out_of_range"]
              ELSE
                LET actual_entry == TheOne(act)
                    skip(total, value) == [total |-> total, value |-> value, ok |-> FALSE]
                    u1 == update_state_and_value(rso.total_ram_bytes,
                              actual_entry.ram_bytes, itr.ram_bytes)
                    u2 == IF u1.ok
                          THEN update_state_and_value(rso.total_cpu_weight,
                                   actual_entry.cpu_weight, itr.cpu_weight)
                          ELSE skip(rso.total_cpu_weight, actual_entry.cpu_weight)
                    u3 == IF u2.ok
                          THEN update_state_and_value(rso.total_net_weight,
                                   actual_entry.net_weight, itr.net_weight)
                          ELSE skip(rso.total_net_weight, actual_entry.net_weight)
                    rlo == [actual_entry EXCEPT !.ram_bytes = u1.value,
                                                !.cpu_weight = u2.value,
                                                !.net_weight = u3.value]
                    rso1 == [rso EXCEPT !.total_ram_bytes = u1.total,
                                        !.total_cpu_weight = u2.total,
                                        !.total_net_weight = u3.total]
                    S1 == Modify(S, "resource_limits", actual_entry.id, rlo)
                IN  IF ~u3.ok
                    THEN [S |-> S1, rso |-> rso1,
                          err |-> "rate_limiting_state_inconsistent"]
                    ELSE process_pending(Remove(S1, "resource_limits", itr.id), rso1)

\* The state object is logged when its modify begins and holds what the
\* lambda wrote when the modify ends, also when the lambda throws.
process_account_limit_updates(S) ==
    LET state == TheOne(S.db["resource_limits_state"])
        S0 == Modify(S, "resource_limits_state", state.id, state)
        R == process_pending(S0, state)
    IN  [S |-> [R.S EXCEPT !.db["resource_limits_state"] = {R.rso}], err |-> R.err]

\* The two singletons as initialize_database creates them.  The elastic
\* parameters and windows are the default member values of the config object.
DefaultState ==
    [id |-> 0, total_ram_bytes |-> 0, total_cpu_weight |-> 0, total_net_weight |-> 0,
     pending_cpu_usage |-> 0, pending_net_usage |-> 0,
     virtual_cpu_limit |-> 0, virtual_net_limit |-> 0,
     average_block_cpu_usage |-> ZeroAccumulator,
     average_block_net_usage |-> ZeroAccumulator]

\* Scaled default member values of resource_limits_config_object: the block
\* maxima (config::default_max_block_cpu_usage, default_max_block_net_usage),
\* the account usage window in slots (24 h / block_interval_ms), and elastic
\* parameters whose max * max_multiplier fits the scaled word.
MaxBlockCpu == 6

MaxBlockNet == 8

AverageWindow == 4

DefaultConfig ==
    [id |-> 0,
     cpu_limit_parameters |->
         [target |-> MaxBlockCpu \div 3, max |-> MaxBlockCpu, periods |-> 1,
          max_multiplier |-> 2,
          contract_rate |-> [numerator |-> 1, denominator |-> 2],
          expand_rate |-> [numerator |-> 3, denominator |-> 2]],
     net_limit_parameters |->
         [target |-> MaxBlockNet \div 2, max |-> MaxBlockNet, periods |-> 1,
          max_multiplier |-> 1,
          contract_rate |-> [numerator |-> 1, denominator |-> 2],
          expand_rate |-> [numerator |-> 3, denominator |-> 2]],
     account_cpu_usage_average_window |-> AverageWindow,
     account_net_usage_average_window |-> AverageWindow]

\* The config and state singletons; the chain starts congested, with the
\* virtual limits at the configured maxima.
initialize_resource_limits(S) ==
    LET c == Create(S, "resource_limits_config", DefaultConfig)
        config == c.row
        s == Create(c.S, "resource_limits_state",
                    [DefaultState EXCEPT
                        !.virtual_cpu_limit = config.cpu_limit_parameters.max,
                        !.virtual_net_limit = config.net_limit_parameters.max])
    IN  s.S

(***************************************************************************)
(* SpecLimits: account limits, their pending overrides and the totals.     *)
(***************************************************************************)
MaxLimitRowIds == 6      \* resource_limits rows created, pending ones included

Accounts == {1, 2, 3}

Limits(r, n, c) == [ram_bytes |-> r, net_weight |-> n, cpu_weight |-> c]

LimitInputs ==
    {Limits(INT64_MAX, INT64_MAX, 1), Limits(1, 0, -1)}

TripleOf(row) == Limits(row.ram_bytes, row.net_weight, row.cpu_weight)

InitLimits ==
    /\ LET S == initialize_resource_limits(
                    [db |-> EmptyDb, next_id |-> ZeroIds, undo |-> <<>>])
       IN  db = S.db /\ next_id = S.next_id /\ undo_stack = S.undo
    /\ sessions = <<>>
    /\ revision = 0
    /\ cache = EmptyCache
    /\ last = NoCall
    /\ hist = [expected |-> [a \in Accounts |-> {}], fresh |-> {}]

InitializeAccount ==
    \E a \in Accounts :
        LET R == initialize_account_resource_limits(Store, a)
        IN  /\ Put(R.S)
            /\ last' = [op |-> "initialize_account_resource_limits",
                        err |-> R.err, account |-> a]
            /\ hist' = IF R.err = "none"
                       THEN [hist EXCEPT !.expected[a] = {DefaultLimits}]
                       ELSE hist
            /\ UNCHANGED <<sessions, cache, revision>>

SetAccountLimits ==
    \E a \in Accounts, l \in LimitInputs :
        /\ next_id["resource_limits"] < MaxLimitRowIds
        /\ LET R == set_account_limits(Store, a, l.ram_bytes, l.net_weight, l.cpu_weight)
           IN  /\ Put(R.S)
               /\ last' = [op |-> "set_account_limits", err |-> R.err, account |-> a]
               /\ hist' = IF R.err = "none"
                          THEN [expected |-> [hist.expected EXCEPT ![a] = {l}],
                                fresh |-> hist.fresh \cup {a}]
                          ELSE hist
        /\ UNCHANGED <<sessions, cache, revision>>

GetAccountLimits ==
    \E a \in Accounts :
        LET R == get_account_limits(Store, a)
        IN  /\ last' = [op |-> "get_account_limits", err |-> R.err, account |-> a,
                        ret |-> TripleOf(R)]
            /\ UNCHANGED <<db, next_id, undo_stack, sessions, cache, hist, revision>>

ProcessAccountLimitUpdates ==
    LET R == process_account_limit_updates(Store)
    IN  /\ Put(R.S)
        /\ last' = [op |-> "process_account_limit_updates", err |-> R.err,
                    pended |-> {r.owner : r \in {x \in db["resource_limits"] : x.pending}},
                    again |-> last.op = "process_account_limit_updates"]
        /\ hist' = [hist EXCEPT !.fresh = {}]
        /\ UNCHANGED <<sessions, cache, revision>>

NextLimits ==
    \/ InitializeAccount
    \/ SetAccountLimits
    \/ GetAccountLimits
    \/ ProcessAccountLimitUpdates

SpecLimits == InitLimits /\ [][NextLimits]_vars

PendingRows == {r \in db["resource_limits"] : r.pending}

ActiveRows == {r \in db["resource_limits"] : ~r.pending}

\* C7: get_account_limits returns the values of the latest set_account_limits
\* (from the pending row while no update pass has run since), else the values
\* the account's active row holds; an account without rows is not found; after
\* a completed update pass the same values are in the active row and no
\* pending row is left.
C7_PendingShadowsActive ==
    /\ last.op = "get_account_limits" =>
         IF hist.expected[last.account] = {}
         THEN last.err = "out_of_range"
         ELSE last.err = "none" /\ hist.expected[last.account] = {last.ret}
    /\ \A a \in hist.fresh :
         \E r \in PendingRows : r.owner = a /\ hist.expected[a] = {TripleOf(r)}
    /\ (last.op = "process_account_limit_updates" /\ last.err = "none") =>
         /\ PendingRows = {}
         /\ \A a \in Accounts : hist.expected[a] # {} =>
               \E r \in ActiveRows : r.owner = a /\ hist.expected[a] = {TripleOf(r)}

\* The pending values differ from the active ones and the lookup returned the
\* pending ones.
C7_Witness ==
    /\ last.op = "get_account_limits"
    /\ last.err = "none"
    /\ last.account \in hist.fresh
    /\ \E r \in ActiveRows : r.owner = last.account /\ TripleOf(r) # last.ret

Pos(v) == IF v > 0 THEN v ELSE 0

RECURSIVE SumPos(_, _)
SumPos(rows, field) ==
    IF rows = {} THEN 0
    ELSE LET r == CHOOSE x \in rows : TRUE
         IN  Pos(r[field]) + SumPos(rows \ {r}, field)

C8_Step ==
    (last'.op = "process_account_limit_updates" /\ last'.err = "none") =>
        LET pend == PendingRows
            olds == {r \in ActiveRows : \E p \in pend : p.owner = r.owner}
            before == TheOne(db["resource_limits_state"])
            after == TheOne(db'["resource_limits_state"])
            moved(field) == SumPos(pend, field) - SumPos(olds, field)
        IN  /\ \A r \in db'["resource_limits"] : ~r.pending
            /\ \A p \in pend : \E r \in db'["resource_limits"] :
                   r.owner = p.owner /\ TripleOf(r) = TripleOf(p)
            /\ \A r \in ActiveRows \ olds : r \in db'["resource_limits"]
            /\ after.total_ram_bytes = before.total_ram_bytes + moved("ram_bytes")
            /\ after.total_cpu_weight = before.total_cpu_weight + moved("cpu_weight")
            /\ after.total_net_weight = before.total_net_weight + moved("net_weight")

\* C8: a completed process_account_limit_updates leaves no pending row, has
\* copied every pending row's three values into the account's active row,
\* left the other active rows alone, and has changed each global total by the
\* positive new values minus the positive old values of the accounts it
\* touched.
C8_FoldsPending == [][C8_Step]_vars

\* A completed pass that replaced a positive active value: a second pending
\* row of some account has been folded in and the totals are not zero.
C8_Witness ==
    /\ last.op = "process_account_limit_updates"
    /\ last.err = "none"
    /\ next_id["resource_limits"] >= Cardinality(ActiveRows) + 2
    /\ Cardinality(ActiveRows) = 1
    /\ TheOne(db["resource_limits_state"]).total_ram_bytes = 1

(***************************************************************************)
(* SpecRam: the RAM usage counter of an account.                           *)
(***************************************************************************)

\* (uint64_t)x for an int64_t x.
ToUint64(x) == x % (UINT64_MAX + 1)

\* -x for an int64_t x as the two's complement target computes it: the
\* negation of the smallest value is that value again.
Negate(x) == IF x = INT64_MIN THEN INT64_MIN ELSE -x

add_pending_ram_usage_no_underflow_guard(S, account, ram_delta) ==
    LET found == find_usage(S, account)
        usage == TheOne(found)
    IN  IF ram_delta = 0 THEN [S |-> S, err |-> "none"]
        ELSE IF found = {} THEN [S |-> S, err |-> "out_of_range"]
        ELSE IF ~(ram_delta <= 0 \/ UINT64_MAX - usage.ram_usage >= ToUint64(ram_delta))
        THEN [S |-> S, err |-> "transaction_exception"]
        ELSE [S |-> Modify(S, "resource_usage", usage.id,
                           [usage EXCEPT !.ram_usage =
                               (@ + ToUint64(ram_delta)) % (UINT64_MAX + 1)]),
              err |-> "none"]

add_pending_ram_usage(S, account, ram_delta) ==
    LET found == find_usage(S, account)
        usage == TheOne(found)
    IN  IF ram_delta = 0 THEN [S |-> S, err |-> "none"]
        ELSE IF found = {} THEN [S |-> S, err |-> "out_of_range"]
        ELSE IF ~(ram_delta <= 0 \/ UINT64_MAX - usage.ram_usage >= ToUint64(ram_delta))
        THEN [S |-> S, err |-> "transaction_exception"]
        ELSE IF ~(ram_delta >= 0 \/ usage.ram_usage >= ToUint64(Negate(ram_delta)))
        THEN [S |-> S, err |-> "transaction_exception"]
        ELSE [S |-> Modify(S, "resource_usage", usage.id,
                           [usage EXCEPT !.ram_usage =
                               (@ + ToUint64(ram_delta)) % (UINT64_MAX + 1)]),
              err |-> "none"]

\* (int64_t)x for a uint64_t x: the value modulo 2^64 that fits.
ToInt64(x) == IF x > INT64_MAX THEN x - (UINT64_MAX + 1) ELSE x

\* get_account_ram_usage: the counter, returned as an int64_t.
get_account_ram_usage(S, account_name) ==
    LET found == find_usage(S, account_name)
    IN  IF found = {} THEN [err |-> "out_of_range", ret |-> 0]
        ELSE [err |-> "none", ret |-> ToInt64(TheOne(found).ram_usage)]

RamAccounts == {1, 2}

RamDeltas == INT64_MIN..INT64_MAX

\* Two accounts with their rows; a third name has none.
InitRam ==
    /\ LET S0 == initialize_resource_limits(
                     [db |-> EmptyDb, next_id |-> ZeroIds, undo |-> <<>>])
           S1 == initialize_account_resource_limits(S0, 1).S
           S2 == initialize_account_resource_limits(S1, 2).S
       IN  db = S2.db /\ next_id = S2.next_id /\ undo_stack = S2.undo
    /\ sessions = <<>>
    /\ revision = 0
    /\ cache = EmptyCache
    /\ last = NoCall
    /\ hist = [a \in RamAccounts |-> 0]

AddPendingRamUsage ==
    \E a \in Accounts, d \in RamDeltas :
        LET R == add_pending_ram_usage(Store, a, d)
        IN  /\ Put(R.S)
            /\ last' = [op |-> "add_pending_ram_usage", err |-> R.err,
                        account |-> a, ram_delta |-> d]
            /\ hist' = IF R.err = "none" /\ a \in RamAccounts
                       THEN [hist EXCEPT ![a] = @ + d]
                       ELSE hist
            /\ UNCHANGED <<sessions, cache, revision>>

GetAccountRamUsage ==
    \E a \in Accounts :
        LET R == get_account_ram_usage(Store, a)
        IN  /\ last' = [op |-> "get_account_ram_usage", err |-> R.err,
                        account |-> a, ret |-> R.ret]
            /\ UNCHANGED <<db, next_id, undo_stack, sessions, cache, hist, revision>>

NextRam == AddPendingRamUsage \/ GetAccountRamUsage

SpecRam == InitRam /\ [][NextRam]_vars

RamUsage(d, a) == TheOne({r \in d["resource_usage"] : r.owner = a}).ram_usage

C6_Step ==
    (last'.op = "add_pending_ram_usage" /\ last'.account \in RamAccounts) =>
        LET a == last'.account
            exact == RamUsage(db, a) + last'.ram_delta
        IN  /\ IF 0 <= exact /\ exact <= UINT64_MAX
               THEN last'.err = "none" /\ RamUsage(db', a) = exact
               ELSE last'.err = "transaction_exception" /\ db' = db
            /\ \A b \in RamAccounts : RamUsage(db', b) = hist'[b]

\* C6: a call of add_pending_ram_usage whose exact result usage + delta lies
\* in 0..UINT64_MAX succeeds and stores exactly that; any other call fails
\* with transaction_exception and changes nothing; so the counter always
\* equals the sum of the deltas of the successful calls.
C6_ExactRamArithmetic == [][C6_Step]_vars

\* An addition refused at the top of the unsigned range, above INT64_MAX.
C6_Witness ==
    /\ last.op = "add_pending_ram_usage"
    /\ last.err = "transaction_exception"
    /\ last.ram_delta > 0
    /\ last.account \in RamAccounts
    /\ RamUsage(db, last.account) > INT64_MAX
    /\ RamUsage(db, last.account) = hist[last.account]

(***************************************************************************)
(* Transaction usage: the windowed accumulators, the per-account check and *)
(* the block totals.                                                       *)
(***************************************************************************)
rate_limiting_precision == 1000000

\* usage_accumulator::add: decay the average to the new ordinal, then add the
\* contribution of units, rounded up.  An ordinal before the last one throws
\* before anything is written.
usage_add(acc, units, ordinal, window_size) ==
    LET value_ex_contrib ==
            (units * rate_limiting_precision + window_size - 1) \div window_size
        decayed ==
            IF acc.last_ordinal = ordinal THEN acc.value_ex
            ELSE IF acc.last_ordinal + window_size > ordinal
            THEN (acc.value_ex * (window_size - (ordinal - acc.last_ordinal)))
                     \div window_size
            ELSE 0
    IN  IF ordinal < acc.last_ordinal THEN [acc |-> acc, ok |-> FALSE]
        ELSE [acc |-> [last_ordinal |-> ordinal, value_ex |-> decayed + value_ex_contrib],
              ok |-> TRUE]

\* The assertion of the per-account check: used_in_window against
\* max_user_use_in_window, for an account that takes part in it.
within_limit_strict(value_ex, window_size, virtual_limit, user_weight, all_user_weight) ==
    LET used_in_window == (value_ex * window_size) \div rate_limiting_precision
        max_user_use_in_window ==
            (virtual_limit * window_size * user_weight) \div all_user_weight
    IN  used_in_window < max_user_use_in_window

within_limit(value_ex, window_size, virtual_limit, user_weight, all_user_weight) ==
    LET used_in_window == (value_ex * window_size) \div rate_limiting_precision
        max_user_use_in_window ==
            (virtual_limit * window_size * user_weight) \div all_user_weight
    IN  used_in_window <= max_user_use_in_window

\* The loop over the authorizing accounts.
RECURSIVE charge_accounts(_, _, _, _, _)
charge_accounts(S, accounts, cpu_usage, net_usage, time_slot) ==
    IF accounts = <<>> THEN [S |-> S, err |-> "none", account |-> 0]
    ELSE
      LET ac == Head(accounts)
          state == TheOne(S.db["resource_limits_state"])
          config == TheOne(S.db["resource_limits_config"])
          found == find_usage(S, ac)
          usage == TheOne(found)
          lim == get_account_limits(S, ac)
          n == usage_add(usage.net_usage, net_usage, time_slot,
                         config.account_net_usage_average_window)
          c == usage_add(usage.cpu_usage, cpu_usage, time_slot,
                         config.account_cpu_usage_average_window)
          bu == [usage EXCEPT !.net_usage = n.acc, !.cpu_usage = c.acc]
          S1 == Modify(S, "resource_usage", usage.id, bu)
          cpu_ok == (lim.cpu_weight >= 0 /\ state.total_cpu_weight > 0) =>
                        within_limit(bu.cpu_usage.value_ex,
                                     config.account_cpu_usage_average_window,
                                     state.virtual_cpu_limit, lim.cpu_weight,
                                     state.total_cpu_weight)
          net_ok == (lim.net_weight >= 0 /\ state.total_net_weight > 0) =>
                        within_limit(bu.net_usage.value_ex,
                                     config.account_net_usage_average_window,
                                     state.virtual_net_limit, lim.net_weight,
                                     state.total_net_weight)
      IN  IF found = {} \/ lim.err # "none"
          THEN [S |-> S, err |-> "out_of_range", account |-> ac]
          ELSE IF ~n.ok THEN [S |-> S, err |-> "assert_exception", account |-> ac]
          ELSE IF ~c.ok THEN [S |-> S1, err |-> "assert_exception", account |-> ac]
          ELSE IF ~cpu_ok THEN [S |-> S1, err |-> "tx_cpu_usage_exceeded", account |-> ac]
          ELSE IF ~net_ok THEN [S |-> S1, err |-> "tx_net_usage_exceeded", account |-> ac]
          ELSE charge_accounts(S1, Tail(accounts), cpu_usage, net_usage, time_slot)

\* The block totals, added after the loop and then checked.
charge_block(S, cpu_usage, net_usage) ==
    LET state == TheOne(S.db["resource_limits_state"])
        config == TheOne(S.db["resource_limits_config"])
        rls == [state EXCEPT
                   !.pending_cpu_usage = (@ + cpu_usage) % (UINT64_MAX + 1),
                   !.pending_net_usage = (@ + net_usage) % (UINT64_MAX + 1)]
        S1 == Modify(S, "resource_limits_state", state.id, rls)
    IN  IF rls.pending_cpu_usage > config.cpu_limit_parameters.max
           \/ rls.pending_net_usage > config.net_limit_parameters.max
        THEN [S |-> S1, err |-> "block_resource_exhausted", account |-> 0]
        ELSE [S |-> S1, err |-> "none", account |-> 0]

add_transaction_usage_block_first(S, accounts, cpu_usage, net_usage, time_slot) ==
    LET B == charge_block(S, cpu_usage, net_usage)
        R == charge_accounts(B.S, accounts, cpu_usage, net_usage, time_slot)
    IN  IF B.err # "none" THEN B ELSE R

\* add_transaction_usage that gives back the store it was called on when it
\* fails.
add_transaction_usage_rolled_back(S, accounts, cpu_usage, net_usage, time_slot) ==
    LET R == charge_accounts(S, accounts, cpu_usage, net_usage, time_slot)
        B == charge_block(R.S, cpu_usage, net_usage)
    IN  IF R.err # "none" THEN [R EXCEPT !.S = S]
        ELSE IF B.err # "none" THEN [B EXCEPT !.S = S]
        ELSE B

add_transaction_usage(S, accounts, cpu_usage, net_usage, time_slot) ==
    LET R == charge_accounts(S, accounts, cpu_usage, net_usage, time_slot)
    IN  IF R.err # "none" THEN R
        ELSE charge_block(R.S, cpu_usage, net_usage)

(***************************************************************************)
(* SpecUsage: add_transaction_usage over accounts whose weights were set   *)
(* and folded in before, one of them possibly with a pending override.     *)
(***************************************************************************)
MaxCalls == 2

UsageAccounts == {1, 2}

WeightInputs ==
    {Limits(-1, 1, 1), Limits(-1, INT64_MAX, INT64_MAX), Limits(-1, -1, 0)}

AccountLists == {<<>>, <<1>>, <<2>>, <<1, 2>>, <<2, 1>>, <<3>>}

\* <<cpu_usage, net_usage>> of a transaction.
UsageInputs == {<<0, 0>>, <<1, 0>>, <<3, 4>>, <<4, 4>>, <<3, 5>>}

Slots == {0, 1, AverageWindow}

\* The store after both accounts were created and given their weights, the
\* update pass has run, and (override) account 1 was given new weights that
\* are still pending.
UsageStore(l1, l2, override) ==
    LET S0 == initialize_resource_limits(
                  [db |-> EmptyDb, next_id |-> ZeroIds, undo |-> <<>>])
        S1 == initialize_account_resource_limits(S0, 1).S
        S2 == initialize_account_resource_limits(S1, 2).S
        S3 == set_account_limits(S2, 1, l1.ram_bytes, l1.net_weight, l1.cpu_weight).S
        S4 == set_account_limits(S3, 2, l2.ram_bytes, l2.net_weight, l2.cpu_weight).S
        S5 == process_account_limit_updates(S4).S
    IN  IF override = {} THEN S5
        ELSE LET o == TheOne(override)
             IN  set_account_limits(S5, 1, o.ram_bytes, o.net_weight, o.cpu_weight).S

InitUsage ==
    /\ \E l1 \in WeightInputs, l2 \in WeightInputs \ {Limits(-1, 1, 1)},
          override \in {{}, {Limits(-1, INT64_MAX, INT64_MAX)}} :
           LET S == UsageStore(l1, l2, override)
           IN  db = S.db /\ next_id = S.next_id /\ undo_stack = S.undo
    /\ sessions = <<>>
    /\ revision = 0
    /\ cache = EmptyCache
    /\ last = NoCall
    /\ hist = 0

AddTransactionUsage ==
    \E accounts \in AccountLists, u \in UsageInputs, time_slot \in Slots :
        /\ hist < MaxCalls
        /\ LET cpu_usage == u[1]
               net_usage == u[2]
               R == add_transaction_usage(Store, accounts, cpu_usage, net_usage, time_slot)
           IN  /\ Put(R.S)
               /\ last' = [op |-> "add_transaction_usage", err |-> R.err,
                           account |-> R.account, accounts |-> accounts,
                           cpu_usage |-> cpu_usage, net_usage |-> net_usage]
        /\ hist' = hist + 1
        /\ UNCHANGED <<sessions, cache, revision>>

NextUsage == AddTransactionUsage

SpecUsage == InitUsage /\ [][NextUsage]_vars

UsageOf(d, a) == TheOne({r \in d["resource_usage"] : r.owner = a})

StateOf(d) == TheOne(d["resource_limits_state"])

\* The limits an account is judged by: its pending row if it has one.
JudgedLimits(d, a) ==
    LET pend == {r \in d["resource_limits"] : r.owner = a /\ r.pending}
        act == {r \in d["resource_limits"] : r.owner = a /\ ~r.pending}
    IN  IF pend # {} THEN TheOne(pend) ELSE TheOne(act)

Listed(accounts) == {accounts[i] : i \in 1..Len(accounts)}

\* Whole units used in the window.
UsedInWindow(value_ex) == (value_ex * AverageWindow) \div rate_limiting_precision

\* used > VL * window * w / W, for an account that takes part in the check.
CpuExceeded(d, a) ==
    /\ JudgedLimits(d, a).cpu_weight >= 0
    /\ StateOf(d).total_cpu_weight > 0
    /\ UsedInWindow(UsageOf(d, a).cpu_usage.value_ex) * StateOf(d).total_cpu_weight
         > StateOf(d).virtual_cpu_limit * AverageWindow * JudgedLimits(d, a).cpu_weight

NetExceeded(d, a) ==
    /\ JudgedLimits(d, a).net_weight >= 0
    /\ StateOf(d).total_net_weight > 0
    /\ UsedInWindow(UsageOf(d, a).net_usage.value_ex) * StateOf(d).total_net_weight
         > StateOf(d).virtual_net_limit * AverageWindow * JudgedLimits(d, a).net_weight

AccountErrors == {"tx_cpu_usage_exceeded", "tx_net_usage_exceeded"}

C4_Step ==
    last'.op = "add_transaction_usage" =>
        LET accounts == last'.accounts
            before(a) == {accounts[j] : j \in {i \in 1..Len(accounts) :
                               \E k \in 1..Len(accounts) : i < k /\ accounts[k] = a}}
            first == accounts[1]
        IN  /\ last'.err = "tx_cpu_usage_exceeded" =>
                 /\ last'.account \in Listed(accounts)
                 /\ CpuExceeded(db', last'.account)
                 /\ \A b \in before(last'.account) :
                        ~CpuExceeded(db', b) /\ ~NetExceeded(db', b)
            /\ last'.err = "tx_net_usage_exceeded" =>
                 /\ last'.account \in Listed(accounts)
                 /\ NetExceeded(db', last'.account)
                 /\ ~CpuExceeded(db', last'.account)
                 /\ \A b \in before(last'.account) :
                        ~CpuExceeded(db', b) /\ ~NetExceeded(db', b)
            /\ last'.err \in {"none", "block_resource_exhausted"} =>
                 \A a \in Listed(accounts) : ~CpuExceeded(db', a) /\ ~NetExceeded(db', a)
            /\ (/\ accounts # <<>>
                /\ first \in UsageAccounts
                /\ last'.err \in AccountErrors \cup {"none", "block_resource_exhausted"}
                /\ UsageOf(db, first).cpu_usage.value_ex = 0
                /\ JudgedLimits(db, first).cpu_weight >= 0
                /\ StateOf(db).total_cpu_weight > 0) =>
                 ((last'.err = "tx_cpu_usage_exceeded" /\ last'.account = first)
                    <=> last'.cpu_usage * StateOf(db).total_cpu_weight
                          > StateOf(db).virtual_cpu_limit * AverageWindow
                              * JudgedLimits(db, first).cpu_weight)

\* C4: add_transaction_usage fails with tx_cpu_usage_exceeded (resp.
\* tx_net_usage_exceeded) naming an account exactly when that account is the
\* first listed one whose weight is >= 0, with total weight > 0, and whose
\* usage in the window after the new usage is folded in is above
\* VL * window * w / W; on an empty accumulator usage u is rejected exactly
\* when u * W > VL * window * w, so usage at capacity passes and one unit more
\* fails; accounts with negative weight or under a zero total are never
\* rejected.
C4_PerAccountCheck == [][C4_Step]_vars

\* A transaction accepted with an account exactly at its capacity.
C4_Witness ==
    /\ last.op = "add_transaction_usage"
    /\ last.err = "none"
    /\ \E a \in Listed(last.accounts) :
         /\ JudgedLimits(db, a).cpu_weight > 0
         /\ StateOf(db).total_cpu_weight > JudgedLimits(db, a).cpu_weight
         /\ last.cpu_usage = UsedInWindow(UsageOf(db, a).cpu_usage.value_ex)
         /\ last.cpu_usage * StateOf(db).total_cpu_weight
              = StateOf(db).virtual_cpu_limit * AverageWindow
                  * JudgedLimits(db, a).cpu_weight

C5_Step ==
    last'.op = "add_transaction_usage" =>
        LET pre == StateOf(db)
            post == StateOf(db')
            config == TheOne(db'["resource_limits_config"])
        IN  /\ last'.err \in {"none", "block_resource_exhausted"} =>
                 /\ post.pending_cpu_usage
                      = (pre.pending_cpu_usage + last'.cpu_usage) % (UINT64_MAX + 1)
                 /\ post.pending_net_usage
                      = (pre.pending_net_usage + last'.net_usage) % (UINT64_MAX + 1)
                 /\ \A a \in Listed(last'.accounts) :
                        ~CpuExceeded(db', a) /\ ~NetExceeded(db', a)
                 /\ last'.err = "block_resource_exhausted" <=>
                        \/ post.pending_cpu_usage > config.cpu_limit_parameters.max
                        \/ post.pending_net_usage > config.net_limit_parameters.max
            /\ last'.err \notin {"none", "block_resource_exhausted"} =>
                 /\ post.pending_cpu_usage = pre.pending_cpu_usage
                 /\ post.pending_net_usage = pre.pending_net_usage
            /\ (\E a \in Listed(last'.accounts) \cap UsageAccounts :
                    CpuExceeded(db', a) \/ NetExceeded(db', a))
                 => last'.err \notin {"none", "block_resource_exhausted"}

\* C5: the block totals grow by cpu_usage and net_usage only when every
\* listed account has passed its check, and the call then fails with
\* block_resource_exhausted exactly when a total is above its configured
\* maximum; when an account fails its check the error is the account's and
\* the totals are as before, also when the block maximum would be exceeded.
C5_BlockTotalsLast == [][C5_Step]_vars

\* An account-level failure of a transaction that would also have exceeded
\* the block's CPU maximum.
C5_Witness ==
    /\ last.op = "add_transaction_usage"
    /\ last.err \in AccountErrors
    /\ StateOf(db).pending_cpu_usage > 0
    /\ StateOf(db).pending_cpu_usage + last.cpu_usage
         > TheOne(db["resource_limits_config"]).cpu_limit_parameters.max

(***************************************************************************)
(* Permissions.  An authority is the set of the key types of its keys.     *)
(***************************************************************************)
genesis_num_supported_key_types == 2

\* Names.  0 is the empty name of the reserved permission.
system_account_name == 1

null_account_name == 2

producers_account_name == 3

owner_name == 1

active_name == 2

majority_producers_permission_name == 3

minority_producers_permission_name == 4

\* create_permission: the key-type check, then the usage row, then the
\* permission row; a second permission of the same owner and name collides on
\* by_owner after the usage row is in place.
create_permission(S, account, permission_name, parent, auth) ==
    LET pso == TheOne(S.db["protocol_state"])
        u == Create(S, "permission_usage", [id |-> 0])
        p == Create(u.S, "permission",
                    [id |-> 0, usage_id |-> u.row.id, parent |-> parent,
                     owner |-> account, perm_name |-> permission_name,
                     auth |-> auth])
    IN  IF \E k \in auth : ~(k < pso.num_supported_key_types)
        THEN [S |-> S, err |-> "unactivated_key_type", id |-> NULL]
        ELSE IF ~p.ok THEN [S |-> u.S, err |-> "logic_error", id |-> NULL]
        ELSE [S |-> p.S, err |-> "none", id |-> p.row.id]

\* remove_permission: refused while by_parent holds a row whose parent is
\* this permission; otherwise the usage row goes, then the permission.
remove_permission_ignoring_children(S, permission) ==
    IF ~Has(S, "permission_usage", permission.usage_id)
    THEN [S |-> S, err |-> "out_of_range"]
    ELSE [S |-> Remove(Remove(S, "permission_usage", permission.usage_id),
                       "permission", permission.id),
          err |-> "none"]

remove_permission(S, permission) ==
    LET range == {c \in S.db["permission"] : c.parent = permission.id}
    IN  IF range # {} THEN [S |-> S, err |-> "action_validate_exception"]
        ELSE IF ~Has(S, "permission_usage", permission.usage_id)
        THEN [S |-> S, err |-> "out_of_range"]
        ELSE [S |-> Remove(Remove(S, "permission_usage", permission.usage_id),
                           "permission", permission.id),
              err |-> "none"]

\* RAM billed to a native account, scaled.
NativeAccountRam == 2

\* The ABI of the system contract that is compiled in: a non-empty blob that
\* declares no table the queries here ask for.
pulsevm_abi_bin == <<0>>

\* create_account: the account row, without an ABI.
create_account(S, account_name, creation_date) ==
    Create(S, "account",
           [id |-> 0, name |-> account_name, creation_date |-> creation_date,
            abi |-> <<>>])

\* create_account_metadata: the metadata row with its four sequence numbers
\* at zero and no code.
create_account_metadata(S, account_name, is_privileged) ==
    Create(S, "account_metadata",
           [id |-> 0, name |-> account_name, recv_sequence |-> 0,
            auth_sequence |-> 0, code_sequence |-> 0, abi_sequence |-> 0,
            code_hash |-> 0, last_code_update |-> 0,
            flags |-> IF is_privileged THEN 1 ELSE 0,
            vm_type |-> 0, vm_version |-> 0])

\* create_native_account: the account and metadata rows, owner and active
\* permissions, the resource rows and the RAM of the account.
create_native_account(S, account_name, owner, active, is_privileged) ==
    TheOne(
      {add_pending_ram_usage(l.S, account_name, NativeAccountRam).S :
         l \in {initialize_account_resource_limits(a.S, account_name) :
           a \in {create_permission(o.S, account_name, active_name, o.id, active) :
             o \in {create_permission(m, account_name, owner_name, 0, owner) :
               m \in {create_account_metadata(c, account_name, is_privileged).S :
                 c \in {Create(S, "account",
                           [id |-> 0, name |-> account_name, creation_date |-> 0,
                            abi |-> IF account_name = system_account_name
                                    THEN pulsevm_abi_bin ELSE <<>>]).S}}}}}})

\* initialize_database: the protocol state, the dynamic global properties
\* with the action sequence at zero, the reserved permission 0 (all
\* members default: parent 0, usage_id 0, empty names), the resource-limit
\* singletons, the three native accounts and the two producer permissions.
\* Rows of types that no operation here reads (header, global properties)
\* are left out.
initialize_database ==
    LET S0 == [db |-> EmptyDb, next_id |-> ZeroIds, undo |-> <<>>]
        S1 == Create(S0, "protocol_state",
                     [id |-> 0, num_supported_key_types |->
                                    genesis_num_supported_key_types]).S
        S2 == Create(Create(S1, "dynamic_global_property",
                            [id |-> 0, global_action_sequence |-> 0]).S,
                     "permission",
                     [id |-> 0, usage_id |-> 0, parent |-> 0, owner |-> 0,
                      perm_name |-> 0, auth |-> {}]).S
        S3 == initialize_resource_limits(S2)
        S4 == create_native_account(S3, system_account_name, {0}, {0}, TRUE)
        S5 == create_native_account(S4, null_account_name, {}, {}, FALSE)
        S6 == create_native_account(S5, producers_account_name, {}, {}, FALSE)
        active_permission ==
            TheOne({p \in S6.db["permission"] :
                       p.owner = producers_account_name /\ p.perm_name = active_name})
        majority == create_permission(S6, producers_account_name,
                        majority_producers_permission_name, active_permission.id, {})
    IN  create_permission(majority.S, producers_account_name,
            minority_producers_permission_name, majority.id, {}).S

(***************************************************************************)
(* SpecPerm: the permission graph after initialize_database.               *)
(***************************************************************************)
MaxPermIds == 11         \* permission ids handed out (9 by initialize_database);
                         \* a failed create_permission uses one up as well

PermAccounts == {producers_account_name, 4}

PermNames == {owner_name, 5}

Auths == {{0}, {genesis_num_supported_key_types}}

InitPerm ==
    /\ LET S == initialize_database
       IN  db = S.db /\ next_id = S.next_id /\ undo_stack = S.undo
    /\ sessions = <<>>
    /\ revision = 0
    /\ cache = EmptyCache
    /\ last = NoCall
    /\ hist = <<>>

\* The parent is the reserved id 0 or a permission of the same account.
CreatePermission ==
    \E account \in PermAccounts, permission_name \in PermNames, auth \in Auths :
      \E parent \in {0} \cup {p.id : p \in {q \in db["permission"] : q.owner = account}} :
        /\ next_id["permission_usage"] + 1 < MaxPermIds
        /\ LET R == create_permission(Store, account, permission_name, parent, auth)
           IN  /\ Put(R.S)
               /\ last' = [op |-> "create_permission", err |-> R.err, id |-> R.id]
        /\ UNCHANGED <<sessions, cache, hist, revision>>

RemovePermission ==
    \E permission \in db["permission"] :
        LET R == remove_permission(Store, permission)
        IN  /\ Put(R.S)
            /\ last' = [op |-> "remove_permission", err |-> R.err,
                        id |-> permission.id]
            /\ UNCHANGED <<sessions, cache, hist, revision>>

NextPerm == CreatePermission \/ RemovePermission

SpecPerm == InitPerm /\ [][NextPerm]_vars

ChildrenOf(d, id) == {c \in d["permission"] : c.parent = id}

C9_Step ==
    last'.op = "remove_permission" =>
        LET P == TheOne({p \in db["permission"] : p.id = last'.id})
        IN  IF ChildrenOf(db, P.id) # {}
            THEN last'.err = "action_validate_exception" /\ db' = db
            ELSE /\ last'.err = "none"
                 /\ db'["permission"] = db["permission"] \ {P}
                 /\ db'["permission_usage"] =
                        {u \in db["permission_usage"] : u.id # P.usage_id}

\* C9: remove_permission(P) fails with action_validate_exception and leaves
\* the store as it was while some permission has P as its parent; when no
\* permission has P as its parent it succeeds and removes P and its usage
\* row, so a parent can be removed once its children are.
C9_ChildrenFirst == [][C9_Step]_vars

\* A permission created here under a parent created here has been removed
\* and then its parent: both ids were handed out after initialize_database
\* and neither row is left.
C9_Witness ==
    /\ last.op = "remove_permission"
    /\ last.err = "none"
    /\ last.id = MaxPermIds - 2
    /\ next_id["permission"] = MaxPermIds
    /\ ~(\E p \in db["permission"] : p.id >= MaxPermIds - 2)
    /\ Cardinality(db["permission"]) = MaxPermIds - 2

(***************************************************************************)
(* Range scans: get_table_rows over the primary index (key_value rows) and *)
(* over a 64-bit secondary index (index64 rows, ordered by table, secondary *)
(* key, primary key).  Strings are sequences of decimal digits.            *)
(***************************************************************************)
\* max_return_items, 1000 in the source, scaled with the word so that a table
\* can hold more rows than it.
max_return_items == 2

\* fc::variant(source).as<string>() of a uint64_t: its decimal digits.
RECURSIVE convert_to_string(_)
convert_to_string(source) ==
    IF source < 10 THEN <<source>>
    ELSE Append(convert_to_string(source \div 10), source % 10)

\* convert_to_type<uint64_t>: boost::lexical_cast of a string of digits.
RECURSIVE convert_to_type(_)
convert_to_type(str) ==
    IF Len(str) = 1 THEN str[1]
    ELSE 10 * convert_to_type(SubSeq(str, 1, Len(str) - 1)) + str[Len(str)]

\* get_table_index_name: the low four bits of the table name select the
\* secondary index; the first secondary index has position 0.
get_table_index_name(table, index_position) ==
    LET index == (table \div 16) * 16
        pos == CASE index_position \in {"", "first", "primary", "one"} -> 0
                 [] index_position \in {"secondary", "two"} -> 0
                 [] index_position = "third" -> 1
                 [] OTHER -> 0
    IN  [err |-> IF index = table THEN "none" ELSE "contract_table_query_exception",
         primary |-> index_position \in {"", "first", "primary", "one"},
         index |-> index + pos]

SecLess(a, b) ==
    \/ a.t_id < b.t_id
    \/ a.t_id = b.t_id /\ a.secondary_key < b.secondary_key
    \/ a.t_id = b.t_id /\ a.secondary_key = b.secondary_key
         /\ a.primary_key < b.primary_key

\* The rows of an index from lower (inclusive) to upper (exclusive), in
\* index order.
RECURSIVE PrimaryRange(_)
PrimaryRange(rows) ==
    IF rows = {} THEN <<>>
    ELSE LET r == First(rows) IN <<r>> \o PrimaryRange(rows \ {r})

RECURSIVE SecondaryRange(_)
SecondaryRange(rows) ==
    IF rows = {} THEN <<>>
    ELSE LET r == CHOOSE x \in rows : \A y \in rows : y = x \/ SecLess(x, y)
         IN  <<r>> \o SecondaryRange(rows \ {r})

\* boost::make_reverse_iterator over a range.
Reverse(seq) == [i \in 1..Len(seq) |-> seq[Len(seq) + 1 - i]]

\* walk_table_row_range: W holds what the lambda captures (the range, the
\* limit, the table id and store for the secondary walk, and after how many
\* emitted rows the clock passes params_deadline, 0 for never).  The break
\* at the deadline leaves itr on the row just emitted.
RECURSIVE walk_table_row_range_discarding(_, _, _, _)
walk_table_row_range_discarding(W, i, count, rows) ==
    IF count < W.limit /\ i <= Len(W.range)
    THEN LET itr == W.range[i]
             itr2 == IF W.secondary
                     THEN {r \in W.S.db["key_value"] :
                              r.t_id = W.t_id /\ r.primary_key = itr.primary_key}
                     ELSE {itr}
             rows1 == Append(rows, TheOne(itr2).primary_key)
         IN  IF itr2 = {} THEN walk_table_row_range_discarding(W, i + 1, count + 1, rows)
             ELSE IF Len(rows1) = W.expires THEN [rows |-> <<>>, i |-> i]
             ELSE walk_table_row_range_discarding(W, i + 1, count + 1, rows1)
    ELSE [rows |-> rows, i |-> i]

RECURSIVE walk_table_row_range(_, _, _, _)
walk_table_row_range(W, i, count, rows) ==
    IF count < W.limit /\ i <= Len(W.range)
    THEN LET itr == W.range[i]
             itr2 == IF W.secondary
                     THEN {r \in W.S.db["key_value"] :
                              r.t_id = W.t_id /\ r.primary_key = itr.primary_key}
                     ELSE {itr}
             rows1 == Append(rows, TheOne(itr2).primary_key)
         IN  IF itr2 = {} THEN walk_table_row_range(W, i + 1, count + 1, rows)
             ELSE IF Len(rows1) = W.expires THEN [rows |-> rows1, i |-> i]
             ELSE walk_table_row_range(W, i + 1, count + 1, rows1)
    ELSE [rows |-> rows, i |-> i]

EmptyResult == [rows |-> <<>>, more |-> FALSE, next_key |-> <<>>]

\* What a walk from the iterator lower meets before it is at the iterator
\* upper (each given as the elements at or behind it): the elements between
\* them, or, with upper in front of lower, everything from lower on.
IteratorRange(lower, upper) ==
    IF upper \subseteq lower THEN lower \ upper ELSE lower

\* The result of a walk: more and next_key when itr stopped before end_itr.
WalkResult(W) ==
    LET R == walk_table_row_range(W, 1, 0, <<>>)
    IN  IF R.i <= Len(W.range)
        THEN [rows |-> R.rows, more |-> TRUE,
              next_key |-> convert_to_string(
                  IF W.secondary THEN W.range[R.i].secondary_key
                  ELSE W.range[R.i].primary_key)]
        ELSE [rows |-> R.rows, more |-> FALSE, next_key |-> <<>>]

ClampLimit_unlimited(limit) == limit

\* The limit of a walk.  The deadline get_table_rows hands down is 30 s from
\* now, never fc::time_point::maximum(), so the cap always applies.
ClampLimit(limit) == IF limit > max_return_items THEN max_return_items ELSE limit

get_table_rows_ex_without_bound_check(S, p, expires) ==
    LET t_id == find_table(S, p.code, p.scope, p.table)
        lower_key == IF Len(p.lower_bound) > 0 THEN convert_to_type(p.lower_bound) ELSE 0
        upper_key == IF Len(p.upper_bound) > 0 THEN convert_to_type(p.upper_bound)
                     ELSE UINT64_MAX
        lower == LowerBound(S, t_id, lower_key)
        upper == UpperBound(S, t_id, upper_key)
        range == PrimaryRange(IteratorRange(lower, upper))
        W == [range |-> IF p.reverse THEN Reverse(range) ELSE range,
              limit |-> ClampLimit(p.limit), expires |-> expires,
              secondary |-> FALSE, t_id |-> t_id, S |-> S]
    IN  IF t_id = NULL THEN EmptyResult
        ELSE WalkResult(W)

\* get_table_rows_ex<key_value_index>: the rows of the table with primary key
\* in [lower_bound, upper_bound], forward or in reverse.
get_table_rows_ex(S, p, expires) ==
    LET t_id == find_table(S, p.code, p.scope, p.table)
        lower_key == IF Len(p.lower_bound) > 0 THEN convert_to_type(p.lower_bound) ELSE 0
        upper_key == IF Len(p.upper_bound) > 0 THEN convert_to_type(p.upper_bound)
                     ELSE UINT64_MAX
        lower == LowerBound(S, t_id, lower_key)
        upper == UpperBound(S, t_id, upper_key)
        range == PrimaryRange(IteratorRange(lower, upper))
        W == [range |-> IF p.reverse THEN Reverse(range) ELSE range,
              limit |-> ClampLimit(p.limit), expires |-> expires,
              secondary |-> FALSE, t_id |-> t_id, S |-> S]
    IN  IF t_id = NULL THEN EmptyResult
        ELSE IF upper_key < lower_key THEN EmptyResult
        ELSE WalkResult(W)

\* get_table_rows_by_seckey<index64_index, uint64_t>: the entries of the
\* secondary index with secondary key in [lower_bound, upper_bound]; each
\* entry's row is looked up in the primary table and skipped when missing.
get_table_rows_by_seckey(S, p, expires) ==
    LET table_with_index == get_table_index_name(p.table, p.index_position).index
        t_id == find_table(S, p.code, p.scope, p.table)
        index_t_id == find_table(S, p.code, p.scope, table_with_index)
        lower_key == IF Len(p.lower_bound) > 0 THEN convert_to_type(p.lower_bound) ELSE 0
        upper_key == IF Len(p.upper_bound) > 0 THEN convert_to_type(p.upper_bound)
                     ELSE UINT64_MAX
        lower == {e \in S.db["index64"] :
                     \/ e.t_id > index_t_id
                     \/ e.t_id = index_t_id /\ e.secondary_key >= lower_key}
        upper == {e \in S.db["index64"] :
                     \/ e.t_id > index_t_id
                     \/ e.t_id = index_t_id /\ e.secondary_key > upper_key}
        range == SecondaryRange(IteratorRange(lower, upper))
        W == [range |-> IF p.reverse THEN Reverse(range) ELSE range,
              limit |-> ClampLimit(p.limit), expires |-> expires,
              secondary |-> TRUE, t_id |-> t_id, S |-> S]
    IN  IF t_id = NULL \/ index_t_id = NULL THEN EmptyResult
        ELSE IF upper_key < lower_key THEN EmptyResult
        ELSE WalkResult(W)

\* get_table_rows_internal for key type i64: the primary index, or the
\* secondary index the position names.
get_table_rows(S, p, expires) ==
    LET n == get_table_index_name(p.table, p.index_position)
    IN  IF n.err # "none" THEN EmptyResult @@ [err |-> n.err]
        ELSE IF n.primary
        THEN get_table_rows_ex(S, p, expires) @@ [err |-> "none"]
        ELSE get_table_rows_by_seckey(S, p, expires) @@ [err |-> "none"]

(***************************************************************************)
(* SpecScan: paging through a table with next_key as the new lower bound.  *)
(***************************************************************************)
MaxPages == 3

\* Secondary keys of the entries of the secondary index.
SecKeys == 1..MaxKey

ScanCode == 1

\* A table of code 1 with rows and secondary-index entries (an entry may be
\* left without its row), and a one-row table of code 2 behind it in both
\* indices.
ScanDb(keys, entries) ==
    [EmptyDb EXCEPT
        !["table_id"] =
            {[id |-> 0, code |-> ScanCode, scope |-> Scope, table |-> TableName,
              payer |-> 1, count |-> Cardinality(keys)],
             [id |-> 1, code |-> 2, scope |-> Scope, table |-> TableName,
              payer |-> 1, count |-> 1]},
        !["key_value"] =
            {[id |-> k, t_id |-> 0, primary_key |-> k, payer |-> 1, value |-> 0]
                : k \in keys}
            \cup {[id |-> 0, t_id |-> 1, primary_key |-> 1, payer |-> 1, value |-> 0]},
        !["index64"] =
            {[id |-> e[1], t_id |-> 0, primary_key |-> e[1], secondary_key |-> e[2],
              payer |-> 1] : e \in entries}
            \cup {[id |-> 0, t_id |-> 1, primary_key |-> 1, secondary_key |-> 1,
                   payer |-> 1]}]

InitScan ==
    /\ \E keys \in SUBSET Keys, entries \in SUBSET (Keys \X SecKeys) :
           /\ \A e, f \in entries : e[1] = f[1] => e = f
           /\ db = ScanDb(keys, entries)
    /\ next_id = [ZeroIds EXCEPT !["table_id"] = 2, !["key_value"] = MaxKey + 1,
                                 !["index64"] = MaxKey + 1]
    /\ undo_stack = <<>>
    /\ sessions = <<>>
    /\ revision = 0
    /\ cache = EmptyCache
    /\ last = NoCall
    /\ hist = [pages |-> 0]

Bounds == {<<>>} \cup {convert_to_string(k) : k \in {0} \cup Keys}

\* The first call of a scan.
StartScan ==
    \E index_position \in {"primary", "secondary"}, reverse \in BOOLEAN,
       limit \in 1..MaxKey, lower_bound \in Bounds, upper_bound \in Bounds,
       expires \in {0, 1} :
        LET p == [code |-> ScanCode, scope |-> Scope, table |-> TableName,
                  lower_bound |-> lower_bound, upper_bound |-> upper_bound,
                  limit |-> limit, key_type |-> "i64",
                  index_position |-> index_position, reverse |-> reverse]
            R == get_table_rows(Store, p, expires)
        IN  /\ hist.pages = 0
            /\ last' = [op |-> "get_table_rows", err |-> R.err, rows |-> R.rows,
                        more |-> R.more, next_key |-> R.next_key]
            /\ hist' = [pages |-> 1, p |-> p, rows |-> R.rows,
                        timed_out |-> (expires # 0 /\ Len(R.rows) = expires)]
            /\ UNCHANGED <<db, next_id, undo_stack, sessions, cache, revision>>

\* The next call: the same parameters with lower_bound = next_key.
NextPage ==
    \E expires \in {0, 1} :
        /\ hist.pages > 0
        /\ hist.pages < MaxPages
        /\ last.more
        /\ LET p == [hist.p EXCEPT !.lower_bound = last.next_key]
               R == get_table_rows(Store, p, expires)
           IN  /\ last' = [op |-> "get_table_rows", err |-> R.err, rows |-> R.rows,
                           more |-> R.more, next_key |-> R.next_key]
               /\ hist' = [hist EXCEPT !.pages = @ + 1, !.rows = @ \o R.rows,
                              !.timed_out = @ \/ (expires # 0 /\ Len(R.rows) = expires)]
        /\ UNCHANGED <<db, next_id, undo_stack, sessions, cache, revision>>

NextScan == StartScan \/ NextPage

SpecScan == InitScan /\ [][NextScan]_vars

\* The bounds of the scan as given to its first call.
ScanLower == IF Len(hist.p.lower_bound) > 0 THEN convert_to_type(hist.p.lower_bound) ELSE 0

ScanUpper ==
    IF Len(hist.p.upper_bound) > 0 THEN convert_to_type(hist.p.upper_bound)
    ELSE UINT64_MAX

\* The primary keys of the rows of the scanned table that are in range: by
\* primary key, or by the secondary key of the row's index entry.
InRange ==
    LET mine == {r \in db["key_value"] : r.t_id = 0}
    IN  IF hist.p.index_position = "primary"
        THEN {r.primary_key : r \in {x \in mine :
                  x.primary_key >= ScanLower /\ x.primary_key <= ScanUpper}}
        ELSE {r.primary_key : r \in {x \in mine :
                  \E e \in db["index64"] :
                     /\ e.t_id = 0
                     /\ e.primary_key = x.primary_key
                     /\ e.secondary_key >= ScanLower
                     /\ e.secondary_key <= ScanUpper}}

NoRowTwice(rows) == \A i, j \in 1..Len(rows) : rows[i] = rows[j] => i = j

\* C2: a scan with more rows in range than limit returns exactly limit rows
\* with more=true on its first call, and the calls that follow with
\* lower_bound = next_key return every remaining row in range exactly once:
\* no row twice at any point, and every row once more=false is returned.
\* Stated for forward scans whose deadline did not pass, the reading most
\* favourable to the walk (a reverse walk restarts from upper_bound).
C2_PagingNoDupNoGap ==
    (/\ hist.pages > 0
     /\ ~hist.timed_out
     /\ ~hist.p.reverse
     /\ Cardinality(InRange) > hist.p.limit) =>
        /\ hist.pages = 1 => (last.more /\ Len(last.rows) = hist.p.limit)
        /\ NoRowTwice(hist.rows)
        /\ ~last.more => {hist.rows[i] : i \in 1..Len(hist.rows)} = InRange

\* modify_permission: the key types are checked, then the authority replaced.
modify_permission(S, permission, auth) ==
    LET pso == TheOne(S.db["protocol_state"])
    IN  IF \E k \in auth : ~(k < pso.num_supported_key_types)
        THEN [S |-> S, err |-> "unactivated_key_type"]
        ELSE [S |-> Modify(S, "permission", permission.id,
                           [permission EXCEPT !.auth = auth]),
              err |-> "none"]

(***************************************************************************)
(* Undo sessions.  A session handle owns the checkpoint it pushed until    *)
(* that checkpoint is undone, squashed into its parent or committed; the   *)
(* owning handles, outermost first, are the owners of the checkpoints of   *)
(* undo_stack in order.                                                    *)
(***************************************************************************)

\* Reverse the records of a checkpoint, newest first.
RECURSIVE replay(_, _)
replay(d, log) ==
    IF Len(log) = 0 THEN d
    ELSE LET e == log[Len(log)]
             others == {r \in d[e.type] : r.id # e.row.id}
             d2 == CASE e.op = "create" -> [d EXCEPT ![e.type] = others]
                     [] e.op = "modify" -> [d EXCEPT ![e.type] = others \cup {e.row}]
                     [] OTHER -> [d EXCEPT ![e.type] = @ \cup {e.row}]
         IN  replay(d2, SubSeq(log, 1, Len(log) - 1))

\* start_undo_session(false) pushes no checkpoint and its handle owns none.
create_undo_session_never_enabled(S, enabled) ==
    [S |-> S, session |-> [owns |-> FALSE]]

\* create_undo_session: start_undo_session(enabled) and the handle to it.
create_undo_session(S, enabled) ==
    IF enabled
    THEN [S |-> [S EXCEPT !.undo = Append(@, [log |-> <<>>])],
          session |-> [owns |-> TRUE]]
    ELSE [S |-> S, session |-> [owns |-> FALSE]]

\* undo that hands the ids of the rows it takes back out again.
undo_reusing_ids(S) ==
    IF Len(S.undo) = 0 THEN S
    ELSE LET log == S.undo[Len(S.undo)].log
             made(T) == {log[i].row.id : i \in {j \in 1..Len(log) :
                            log[j].type = T /\ log[j].op = "create"}}
         IN  [db |-> replay(S.db, log),
              next_id |-> [T \in Types |->
                             IF made(T) = {} THEN S.next_id[T]
                             ELSE CHOOSE m \in made(T) : \A x \in made(T) : m <= x],
              undo |-> SubSeq(S.undo, 1, Len(S.undo) - 1)]

\* undo that reverses the records of the checkpoint oldest first.
undo_oldest_first(S) ==
    IF Len(S.undo) = 0 THEN S
    ELSE LET log == S.undo[Len(S.undo)].log
         IN  [db |-> replay(S.db, [i \in 1..Len(log) |-> log[Len(log) + 1 - i]]),
              next_id |-> S.next_id,
              undo |-> SubSeq(S.undo, 1, Len(S.undo) - 1)]

\* undo: the innermost checkpoint is reversed and popped; object ids handed
\* out meanwhile are not handed out again.
undo(S) ==
    IF Len(S.undo) = 0 THEN S
    ELSE [db |-> replay(S.db, S.undo[Len(S.undo)].log),
          next_id |-> S.next_id,
          undo |-> SubSeq(S.undo, 1, Len(S.undo) - 1)]

\* squash: the innermost checkpoint's records move to the end of its parent's.
squash(S) ==
    LET n == Len(S.undo)
    IN  IF n < 2 THEN S
        ELSE [S EXCEPT !.undo =
                 Append(SubSeq(@, 1, n - 2),
                        [log |-> @[n - 1].log \o @[n].log])]

\* commit that discards the checkpoints made after the revision as well.
commit_whole_stack(S, k) == [S EXCEPT !.undo = <<>>]

\* commit: the k oldest checkpoints are discarded, their changes kept.
commit(S, k) == [S EXCEPT !.undo = SubSeq(@, k + 1, Len(@))]

\* revision() after undo: the counter moves on when the checkpoint undone is
\* the outermost one, the end of a top-level session.
undo_revision_every_checkpoint(S, rev) == IF Len(S.undo) > 0 THEN rev + 1 ELSE rev

undo_revision(S, rev) == IF Len(S.undo) = 1 THEN rev + 1 ELSE rev

\* revision() after commit: the oldest checkpoint, a top-level session's, is
\* among the k committed.
commit_revision(S, k, rev) == IF Len(S.undo) > 0 /\ k > 0 THEN rev + 1 ELSE rev

\* The handles that own a checkpoint, as positions in ss, and the innermost.
Owning(ss) == {i \in 1..Len(ss) : ss[i].owns}

Innermost(I) == CHOOSE i \in I : \A j \in I : j <= i

\* The handles after the owners at positions I gave their checkpoints up.
Release(ss, I) == [i \in 1..Len(ss) |-> IF i \in I THEN [owns |-> FALSE] ELSE ss[i]]

(***************************************************************************)
(* SpecUndo: permission mutations inside nested undo sessions,             *)
(* from the state initialize_database leaves.  hist has one entry per live *)
(* handle: the content when the session began, whether it was asked to be  *)
(* enabled, whether it was undone, squashed or committed since, and        *)
(* whether an operation inside it failed after changing the store.         *)
(***************************************************************************)
MaxSessions == 2         \* live session handles
MaxCreates == 1          \* create_permission calls made
MaxRevision == 1         \* top-level sessions ended

\* create_permission calls made by initialize_database: owner and active of
\* the three native accounts, and the two producer permissions.
GenesisPermissions == 8
MaxLog == 4              \* reversal records held by the checkpoints together

RECURSIVE Records(_)
Records(stack) ==
    IF Len(stack) = 0 THEN 0 ELSE Len(stack[1].log) + Records(Tail(stack))

InitUndo ==
    /\ LET S == initialize_database
       IN  db = S.db /\ next_id = S.next_id /\ undo_stack = S.undo
    /\ sessions = <<>>
    /\ revision = 0
    /\ cache = EmptyCache
    /\ last = NoCall
    /\ hist = <<>>

CreateUndoSession ==
    \E enabled \in BOOLEAN :
        /\ Len(sessions) < MaxSessions
        /\ LET R == create_undo_session(Store, enabled)
           IN  /\ Put(R.S)
               /\ sessions' = Append(sessions, R.session)
        /\ hist' = Append(hist, [begin |-> db, enabled |-> enabled,
                                 ended |-> FALSE, cut |-> FALSE])
        /\ last' = [op |-> "create_undo_session", err |-> "none"]
        /\ UNCHANGED <<cache, revision>>

\* A call made inside a session that was started enabled and has not ended:
\* R is what it returns.
InSession(op, R) ==
    /\ \E i \in 1..Len(hist) : hist[i].enabled /\ ~hist[i].ended
    /\ Records(R.S.undo) <= MaxLog
    /\ Put(R.S)
    /\ last' = [op |-> op, err |-> R.err]
    /\ hist' = [i \in 1..Len(hist) |->
                   [hist[i] EXCEPT !.cut = @ \/ (R.err # "none" /\ R.S.db # db)]]
    /\ UNCHANGED <<sessions, cache, revision>>

\* The permissions removed: the last one initialize_database creates and the
\* ones created here.
UndoPermissions ==
    {p \in db["permission"] :
        /\ p.owner = producers_account_name
        /\ p.perm_name \in (PermNames \cup {minority_producers_permission_name})
                            \ {owner_name}}

\* By the producers account: owner exists already, so creating it fails after
\* the usage row was created.
CreatePermissionInSession ==
    \E permission_name \in PermNames :
        /\ next_id["permission_usage"] < GenesisPermissions + MaxCreates
        /\ InSession("create_permission",
                     create_permission(Store, producers_account_name,
                                       permission_name, 0, {0}))

RemovePermissionInSession ==
    \E permission \in UndoPermissions :
        InSession("remove_permission", remove_permission(Store, permission))

\* Of the last permission initialize_database creates.
ModifyPermissionInSession ==
    \E permission \in {p \in UndoPermissions :
                            p.perm_name = minority_producers_permission_name},
       auth \in Auths :
        InSession("modify_permission", modify_permission(Store, permission, auth))

\* The positions of the sessions asked to be enabled and not ended since.
Open == {i \in 1..Len(hist) : hist[i].enabled /\ ~hist[i].ended}

End(I) == [i \in 1..Len(hist) |-> IF i \in I THEN [hist[i] EXCEPT !.ended = TRUE]
                                  ELSE hist[i]]

Kinds(log) == {log[i].op : i \in 1..Len(log)}

\* What a step that may undo a checkpoint leaves in last.
Undone(op, S) ==
    [op |-> op, err |-> "none",
     kinds |-> IF Len(undo_stack) > Len(S.undo)
               THEN Kinds(undo_stack[Len(undo_stack)].log) ELSE {},
     cut |-> Open # {} /\ hist[Innermost(Open)].cut,
     changed |-> S.db # db]

\* undo(db): the innermost checkpoint is undone; its handle owns none now.
Undo ==
    /\ Len(sessions) > 0
    /\ LET S == undo(Store)
       IN  Put(S) /\ last' = Undone("undo", S)
    /\ sessions' = IF Owning(sessions) = {} THEN sessions
                   ELSE Release(sessions, {Innermost(Owning(sessions))})
    /\ hist' = IF Open = {} THEN hist ELSE End({Innermost(Open)})
    /\ revision' = undo_revision(Store, revision)
    /\ revision' <= MaxRevision
    /\ UNCHANGED cache

\* The innermost handle goes out of scope: its checkpoint, if it still owns
\* one, is undone.
DestroySession ==
    /\ Len(sessions) > 0
    /\ LET S == IF sessions[Len(sessions)].owns THEN undo(Store) ELSE Store
       IN  Put(S) /\ last' = Undone("session_destroyed", S)
    /\ sessions' = SubSeq(sessions, 1, Len(sessions) - 1)
    /\ hist' = SubSeq(hist, 1, Len(hist) - 1)
    /\ revision' = IF sessions[Len(sessions)].owns
                   THEN undo_revision(Store, revision) ELSE revision
    /\ revision' <= MaxRevision
    /\ UNCHANGED cache

\* The innermost owning session is squashed into its parent.
Squash ==
    /\ Cardinality(Owning(sessions)) >= 2
    /\ Put(squash(Store))
    /\ sessions' = Release(sessions, {Innermost(Owning(sessions))})
    /\ hist' = End({Innermost(Open)})
    /\ last' = [op |-> "squash", err |-> "none"]
    /\ UNCHANGED <<cache, revision>>

\* commit(revision) with the revision of the k-th oldest checkpoint.
Commit ==
    \E k \in 1..Len(undo_stack) :
        LET I == {i \in Owning(sessions) :
                     Cardinality({j \in Owning(sessions) : j <= i}) <= k}
        IN  /\ Put(commit(Store, k))
            /\ sessions' = Release(sessions, I)
            /\ hist' = End(I)
            /\ last' = [op |-> "commit", err |-> "none", k |-> k,
                        records |-> Records(SubSeq(undo_stack, 1, k))]
            /\ revision' = commit_revision(Store, k, revision)
            /\ revision' <= MaxRevision
            /\ UNCHANGED cache

NextUndo ==
    \/ CreateUndoSession
    \/ CreatePermissionInSession
    \/ RemovePermissionInSession
    \/ ModifyPermissionInSession
    \/ Undo
    \/ DestroySession
    \/ Squash
    \/ Commit

SpecUndo == InitUndo /\ [][NextUndo]_vars

C1_Step ==
    /\ (last'.op = "undo" /\ Open # {}) => db' = hist[Innermost(Open)].begin
    /\ (/\ last'.op = "session_destroyed"
        /\ hist[Len(hist)].enabled
        /\ ~hist[Len(hist)].ended) => db' = hist[Len(hist)].begin

\* C1: when a session that was started enabled and has not been committed
\* or squashed is undone, by undo or by its handle being destroyed, every
\* table holds exactly the rows it held when the session began, whatever
\* creates, modifies and removes were made inside it and whether or not one
\* of them failed part-way.
C1_UndoRestores == [][C1_Step]_vars

\* A session in which rows were created, modified and removed, and in which
\* a call failed after changing the store, was undone by its handle being
\* destroyed, and the store changed back.
C1_Witness ==
    /\ last.op = "session_destroyed"
    /\ last.kinds = {"create", "modify", "remove"}
    /\ last.cut
    /\ last.changed

\* The same by an explicit undo of a session nested in another.
C1_WitnessNested ==
    /\ last.op = "undo"
    /\ last.changed
    /\ last.cut
    /\ Len(undo_stack) = 1

C11_Step ==
    /\ last'.op = "commit" =>
           /\ db' = db
           /\ undo_stack' = SubSeq(undo_stack, last'.k + 1, Len(undo_stack))
    /\ (last'.op \in {"undo", "session_destroyed"} /\ Len(undo_stack) = 0) =>
           db' = db
    /\ (last'.op \in {"undo", "session_destroyed"} /\ Len(undo_stack) > 0) =>
           /\ db' \in {db, replay(db, undo_stack[Len(undo_stack)].log)}
           /\ Len(undo_stack') >= Len(undo_stack) - 1

TopLevelBoundary ==
    \/ last'.op = "commit"
    \/ /\ last'.op \in {"undo", "session_destroyed"}
       /\ Len(undo_stack) = 1
       /\ Len(undo_stack') = 0

C12_Step ==
    IF TopLevelBoundary THEN revision' = revision + 1 ELSE revision' = revision

Parent == Innermost(Open \ {Innermost(Open)})

SameRow(e, f) == e.type = f.type /\ e.row.id = f.row.id

\* C13: with a session open inside another, squashing the inner one and then
\* undoing the parent leaves the same store as undoing the inner one and
\* then the parent: the content the store had when the parent began, with
\* the same checkpoints left.
C13_SquashThenUndo ==
    Cardinality(Open) >= 2 =>
        LET a == undo(squash(Store))
            b == undo(undo(Store))
        IN  /\ a.db = b.db
            /\ a.undo = b.undo
            /\ a.db = hist[Parent].begin

\* Both sessions hold records, two of them on the same row.
C13_Witness ==
    /\ Cardinality(Open) >= 2
    /\ LET n == Len(undo_stack)
       IN  \E i \in 1..Len(undo_stack[n - 1].log), j \in 1..Len(undo_stack[n].log) :
               /\ SameRow(undo_stack[n - 1].log[i], undo_stack[n].log[j])
               /\ undo_stack[n - 1].log[i].op # undo_stack[n].log[j].op

\* The before-images the checkpoints hold for object type T.
Logged(stack, T) ==
    {stack[e[1]].log[e[2]].row :
        e \in {f \in (1..Len(stack)) \X (1..MaxLog) :
                   /\ f[2] <= Len(stack[f[1]].log)
                   /\ stack[f[1]].log[f[2]].type = T}}

\* What makes a row the row it is, apart from its id: the fields no call
\* changes after the row is created.
Identity(T, r) ==
    IF T = "permission" THEN <<r.owner, r.perm_name, r.usage_id, r.parent>>
    ELSE <<>>

C14_Step ==
    \A T \in {"permission", "permission_usage"} :
        /\ next_id'[T] >= next_id[T]
        /\ \A r \in db'[T] :
               /\ r.id < next_id'[T]
               /\ r.id < next_id[T] =>
                      \E x \in db[T] \cup Logged(undo_stack, T) :
                          x.id = r.id /\ Identity(T, x) = Identity(T, r)
        /\ \A r, x \in db'[T] : r.id = x.id => r = x

verify_account_ram_usage_strict(S, account) ==
    LET limits == get_account_limits(S, account)
        found == find_usage(S, account)
    IN  IF limits.err # "none" THEN [S |-> S, err |-> limits.err]
        ELSE IF found = {} THEN [S |-> S, err |-> "out_of_range"]
        ELSE IF limits.ram_bytes >= 0
                /\ ~(TheOne(found).ram_usage < ToUint64(limits.ram_bytes))
        THEN [S |-> S, err |-> "ram_usage_exceeded"]
        ELSE [S |-> S, err |-> "none"]

\* verify_account_ram_usage: the limits get_account_limits returns, then the
\* usage row; a quota >= 0 is compared as uint64_t.
verify_account_ram_usage(S, account) ==
    LET limits == get_account_limits(S, account)
        found == find_usage(S, account)
    IN  IF limits.err # "none" THEN [S |-> S, err |-> limits.err]
        ELSE IF found = {} THEN [S |-> S, err |-> "out_of_range"]
        ELSE IF limits.ram_bytes >= 0
                /\ ~(TheOne(found).ram_usage <= ToUint64(limits.ram_bytes))
        THEN [S |-> S, err |-> "ram_usage_exceeded"]
        ELSE [S |-> S, err |-> "none"]

QuotaInputs == {-1, 2, INT64_MAX}

QuotaDeltas == {2, INT64_MAX - 1}

\* The account whose quota and usage move; the other keeps its defaults.
QuotaAccounts == {1}

\* Two accounts with their rows; a third name has none.
InitQuota ==
    /\ LET S0 == initialize_resource_limits(
                     [db |-> EmptyDb, next_id |-> ZeroIds, undo |-> <<>>])
           S1 == initialize_account_resource_limits(S0, 1).S
           S2 == initialize_account_resource_limits(S1, 2).S
       IN  db = S2.db /\ next_id = S2.next_id /\ undo_stack = S2.undo
    /\ sessions = <<>>
    /\ revision = 0
    /\ cache = EmptyCache
    /\ last = NoCall
    /\ hist = <<>>

SetQuota ==
    \E a \in QuotaAccounts, ram_bytes \in QuotaInputs :
        /\ next_id["resource_limits"] < MaxLimitRowIds
        /\ LET R == set_account_limits(Store, a, ram_bytes, -1, -1)
           IN  /\ Put(R.S)
               /\ last' = [op |-> "set_account_limits", err |-> R.err, account |-> a]
        /\ UNCHANGED <<sessions, revision, cache, hist>>

ChargeRam ==
    \E a \in QuotaAccounts, d \in QuotaDeltas :
        LET R == add_pending_ram_usage(Store, a, d)
        IN  /\ Put(R.S)
            /\ last' = [op |-> "add_pending_ram_usage", err |-> R.err, account |-> a]
            /\ UNCHANGED <<sessions, revision, cache, hist>>

FoldQuotas ==
    LET R == process_account_limit_updates(Store)
    IN  /\ Put(R.S)
        /\ last' = [op |-> "process_account_limit_updates", err |-> R.err]
        /\ UNCHANGED <<sessions, revision, cache, hist>>

VerifyAccountRamUsage ==
    \E a \in Accounts :
        LET R == verify_account_ram_usage(Store, a)
        IN  /\ Put(R.S)
            /\ last' = [op |-> "verify_account_ram_usage", err |-> R.err,
                        account |-> a]
            /\ UNCHANGED <<sessions, revision, cache, hist>>

NextQuota == SetQuota \/ ChargeRam \/ FoldQuotas \/ VerifyAccountRamUsage

SpecQuota == InitQuota /\ [][NextQuota]_vars

\* The quota in force: the pending row's if the account has one, else the
\* active row's.
Quota(a) ==
    LET pend == {r \in db["resource_limits"] : r.owner = a /\ r.pending}
        act == {r \in db["resource_limits"] : r.owner = a /\ ~r.pending}
    IN  IF pend # {} THEN TheOne(pend).ram_bytes ELSE TheOne(act).ram_bytes

C15_Step ==
    (last'.op = "verify_account_ram_usage" /\ last'.account \in RamAccounts) =>
        LET a == last'.account
            exceeded == Quota(a) >= 0 /\ RamUsage(db, a) > Quota(a)
        IN  /\ last'.err = IF exceeded THEN "ram_usage_exceeded" ELSE "none"
            /\ db' = db

\* C15: verify_account_ram_usage fails with ram_usage_exceeded exactly when
\* the quota in force (pending before active) is >= 0 and the usage is
\* strictly greater; usage equal to the quota passes, a negative quota
\* passes any usage, and the call changes nothing.
C15_QuotaCheck == [][C15_Step]_vars

\* Usage equal to a pending quota passed, while the active row still says
\* unlimited.
C15_Witness ==
    /\ last.op = "verify_account_ram_usage"
    /\ last.err = "none"
    /\ last.account \in RamAccounts
    /\ \E r \in db["resource_limits"] :
           r.owner = last.account /\ r.pending /\ r.ram_bytes = RamUsage(db, last.account)
    /\ \E r \in db["resource_limits"] :
           r.owner = last.account /\ ~r.pending /\ r.ram_bytes = -1

\* Usage above a quota failed, and usage above INT64_MAX passed a negative
\* quota.
C15_WitnessExceeded ==
    /\ last.op = "verify_account_ram_usage"
    /\ last.err = "ram_usage_exceeded"
    /\ RamUsage(db, last.account) > INT64_MAX


(***************************************************************************)
(* Elastic limits: what an account has left in its window, and the         *)
(* virtual limits that the per-block update expands and contracts.         *)
(***************************************************************************)
maximum_elastic_resource_multiplier == 1000

\* impl::integer_divide_ceil: the quotient, rounded up.
integer_divide_ceil(num, den) ==
    (num \div den) + (IF num % den > 0 THEN 1 ELSE 0)

\* impl::downgrade_cast<int64_t>: the value itself, which has to fit.
downgrade_cast(v) == v

\* The result for an account that takes no part in the elastic check.
UnlimitedResult(last_ordinal) ==
    [err |-> "none",
     arl |-> [used |-> -1, available |-> -1, max |-> -1,
              last_usage_update_time |-> last_ordinal, current_used |-> -1],
     greylisted |-> FALSE]

\* The part the cpu and net getters share, after each has picked its own
\* weight, total, parameters, window and accumulator.  current_time is {} or
\* a singleton slot.
account_limit_ignoring_greylist(weight, total_weight, params_max, virtual_limit, window_size, acc, greylist_limit, current_time) ==
    LET max_user_use_in_window ==
            (window_size * virtual_limit * weight) \div total_weight
        used_in_window ==
            integer_divide_ceil(acc.value_ex * window_size, rate_limiting_precision)
        available ==
            IF max_user_use_in_window <= used_in_window THEN 0
            ELSE downgrade_cast(max_user_use_in_window - used_in_window)
    IN  IF weight < 0 \/ total_weight = 0 THEN UnlimitedResult(acc.last_ordinal)
        ELSE [err |-> "none",
              arl |-> [used |-> downgrade_cast(used_in_window),
                       available |-> available,
                       max |-> downgrade_cast(max_user_use_in_window),
                       last_usage_update_time |-> acc.last_ordinal,
                       current_used |-> downgrade_cast(used_in_window)],
              greylisted |-> FALSE]

account_limit(weight, total_weight, params_max, virtual_limit, window_size, acc, greylist_limit, current_time) ==
    LET greylisted_virtual_limit ==
            (params_max * greylist_limit) % (UINT64_MAX + 1)
        greylisted ==
            /\ greylist_limit < maximum_elastic_resource_multiplier
            /\ greylisted_virtual_limit < virtual_limit
        virtual_capacity_in_window ==
            window_size * (IF greylisted THEN greylisted_virtual_limit
                           ELSE virtual_limit)
        max_user_use_in_window ==
            (virtual_capacity_in_window * weight) \div total_weight
        used_in_window ==
            integer_divide_ceil(acc.value_ex * window_size, rate_limiting_precision)
        available ==
            IF max_user_use_in_window <= used_in_window THEN 0
            ELSE downgrade_cast(max_user_use_in_window - used_in_window)
        used == downgrade_cast(used_in_window)
        history_usage ==
            IF current_time # {} /\ TheOne(current_time) > acc.last_ordinal
            THEN usage_add(acc, 0, TheOne(current_time), window_size).acc
            ELSE acc
        current_used ==
            IF current_time # {} /\ TheOne(current_time) > acc.last_ordinal
            THEN downgrade_cast(integer_divide_ceil(history_usage.value_ex * window_size,
                                                    rate_limiting_precision))
            ELSE used
    IN  IF weight < 0 \/ total_weight = 0 THEN UnlimitedResult(acc.last_ordinal)
        ELSE [err |-> "none",
              arl |-> [used |-> used,
                       available |-> available,
                       max |-> downgrade_cast(max_user_use_in_window),
                       last_usage_update_time |-> acc.last_ordinal,
                       current_used |-> current_used],
              greylisted |-> greylisted]

NoLimitResult ==
    [err |-> "out_of_range",
     arl |-> [used |-> 0, available |-> 0, max |-> 0,
              last_usage_update_time |-> 0, current_used |-> 0],
     greylisted |-> FALSE]

get_account_cpu_limit_ex(S, account_name, greylist_limit, current_time) ==
    LET state == TheOne(S.db["resource_limits_state"])
        found == find_usage(S, account_name)
        usage == TheOne(found)
        config == TheOne(S.db["resource_limits_config"])
        lim == get_account_limits(S, account_name)
    IN  IF found = {} \/ lim.err # "none" THEN NoLimitResult
        ELSE account_limit(lim.cpu_weight, state.total_cpu_weight,
                           config.cpu_limit_parameters.max, state.virtual_cpu_limit,
                           config.account_cpu_usage_average_window,
                           usage.cpu_usage, greylist_limit, current_time)

\* get_account_net_limit_ex with the greylist limit left out of account.
get_account_net_limit_ex_never_greylisted(S, account_name, greylist_limit, current_time) ==
    LET state == TheOne(S.db["resource_limits_state"])
        found == find_usage(S, account_name)
        usage == TheOne(found)
        config == TheOne(S.db["resource_limits_config"])
        lim == get_account_limits(S, account_name)
    IN  IF found = {} \/ lim.err # "none" THEN NoLimitResult
        ELSE account_limit(lim.net_weight, state.total_net_weight,
                           config.net_limit_parameters.max, state.virtual_net_limit,
                           config.account_net_usage_average_window,
                           usage.net_usage, maximum_elastic_resource_multiplier,
                           current_time)

get_account_net_limit_ex(S, account_name, greylist_limit, current_time) ==
    LET state == TheOne(S.db["resource_limits_state"])
        found == find_usage(S, account_name)
        usage == TheOne(found)
        config == TheOne(S.db["resource_limits_config"])
        lim == get_account_limits(S, account_name)
    IN  IF found = {} \/ lim.err # "none" THEN NoLimitResult
        ELSE account_limit(lim.net_weight, state.total_net_weight,
                           config.net_limit_parameters.max, state.virtual_net_limit,
                           config.account_net_usage_average_window,
                           usage.net_usage, greylist_limit, current_time)

\* The two calls of the interface: available and the greylisted flag, with
\* no current time.
get_account_cpu_limit(S, name, greylist_limit) ==
    LET r == get_account_cpu_limit_ex(S, name, greylist_limit, {})
    IN  [err |-> r.err, available |-> r.arl.available, greylisted |-> r.greylisted]

get_account_net_limit(S, name, greylist_limit) ==
    LET r == get_account_net_limit_ex(S, name, greylist_limit, {})
    IN  [err |-> r.err, available |-> r.arl.available, greylisted |-> r.greylisted]

\* uint64_t * ratio: multiply by the numerator, divide by the denominator.
ratio_mul(value, r) == (value * r.numerator) \div r.denominator

\* usage_accumulator::average: the average in whole units, rounded up.
average(acc) == integer_divide_ceil(acc.value_ex, rate_limiting_precision)

update_elastic_limit_at_target(current_limit, average_usage, params) ==
    LET result == IF average_usage >= params.target
                  THEN ratio_mul(current_limit, params.contract_rate)
                  ELSE ratio_mul(current_limit, params.expand_rate)
        top == (params.max * params.max_multiplier) % (UINT64_MAX + 1)
        low == IF result > params.max THEN result ELSE params.max
    IN  IF low < top THEN low ELSE top

update_elastic_limit(current_limit, average_usage, params) ==
    LET result == IF average_usage > params.target
                  THEN ratio_mul(current_limit, params.contract_rate)
                  ELSE ratio_mul(current_limit, params.expand_rate)
        top == (params.max * params.max_multiplier) % (UINT64_MAX + 1)
        low == IF result > params.max THEN result ELSE params.max
    IN  IF low < top THEN low ELSE top

update_virtual_cpu_limit(S) ==
    LET state == TheOne(S.db["resource_limits_state"])
        cfg == TheOne(S.db["resource_limits_config"])
    IN  Modify(S, "resource_limits_state", state.id,
               [state EXCEPT !.virtual_cpu_limit =
                   update_elastic_limit(state.virtual_cpu_limit,
                                        average(state.average_block_cpu_usage),
                                        cfg.cpu_limit_parameters)])

update_virtual_net_limit(S) ==
    LET state == TheOne(S.db["resource_limits_state"])
        cfg == TheOne(S.db["resource_limits_config"])
    IN  Modify(S, "resource_limits_state", state.id,
               [state EXCEPT !.virtual_net_limit =
                   update_elastic_limit(state.virtual_net_limit,
                                        average(state.average_block_net_usage),
                                        cfg.net_limit_parameters)])

\* set_block_parameters: nothing is written when all sixteen values are the
\* ones the config already holds.
set_block_parameters(S, cpu_limit_parameters, net_limit_parameters) ==
    LET config == TheOne(S.db["resource_limits_config"])
    IN  IF config.cpu_limit_parameters = cpu_limit_parameters
           /\ config.net_limit_parameters = net_limit_parameters
        THEN S
        ELSE Modify(S, "resource_limits_config", config.id,
                    [config EXCEPT !.cpu_limit_parameters = cpu_limit_parameters,
                                   !.net_limit_parameters = net_limit_parameters])


(***************************************************************************)
(* SpecElastic: accounts with weights are charged and asked what they have *)
(* left, while the block parameters change and the virtual limits are      *)
(* updated.                                                                *)
(***************************************************************************)
Params(target, max, max_multiplier, contract_rate, expand_rate) ==
    [target |-> target, max |-> max, periods |-> 1,
     max_multiplier |-> max_multiplier,
     contract_rate |-> [numerator |-> contract_rate[1], denominator |-> contract_rate[2]],
     expand_rate |-> [numerator |-> expand_rate[1], denominator |-> expand_rate[2]]]

\* <<cpu_limit_parameters, net_limit_parameters>> handed to
\* set_block_parameters; the first pair is what the config starts with.
ParamInputs ==
    {<<DefaultConfig.cpu_limit_parameters, DefaultConfig.net_limit_parameters>>,
     <<Params(5, 7, 2, <<2, 3>>, <<3, 2>>), Params(3, 3, 4, <<1, 2>>, <<2, 1>>)>>}

\* <<cpu, net>> block averages, in whole units, left by the blocks so far.
AverageInputs == {<<2, 4>>, <<5, 5>>}

GreylistInputs == {1, maximum_elastic_resource_multiplier}

ElasticWeights ==
    {<<Limits(-1, 1, 1), Limits(-1, INT64_MAX, INT64_MAX)>>,
     <<Limits(-1, -1, 1), Limits(-1, 1, 0)>>,
     <<Limits(-1, -1, 0), Limits(-1, -1, 0)>>}

ElasticUsage == {<<1, 0>>, <<3, 4>>}

ElasticSlots == {1}

InitElastic ==
    /\ \E w \in ElasticWeights, avg \in AverageInputs :
           LET S == UsageStore(w[1], w[2], {})
               state == TheOne(S.db["resource_limits_state"])
               rso == [state EXCEPT
                          !.average_block_cpu_usage.value_ex =
                              avg[1] * rate_limiting_precision,
                          !.average_block_net_usage.value_ex =
                              avg[2] * rate_limiting_precision]
           IN  /\ db = [S.db EXCEPT !["resource_limits_state"] = {rso}]
               /\ next_id = S.next_id
               /\ undo_stack = S.undo
    /\ sessions = <<>>
    /\ revision = 0
    /\ cache = EmptyCache
    /\ last = NoCall
    /\ hist = 0

ChargeElastic ==
    \E u \in ElasticUsage, time_slot \in ElasticSlots :
        /\ hist < MaxCalls
        /\ LET R == add_transaction_usage(Store, <<1>>, u[1], u[2], time_slot)
           IN  /\ Put(R.S)
               /\ last' = [op |-> "add_transaction_usage", err |-> R.err]
        /\ hist' = hist + 1
        /\ UNCHANGED <<sessions, cache, revision>>

GetAccountCpuLimit ==
    \E name \in UsageAccounts, greylist_limit \in GreylistInputs :
        /\ LET r == get_account_cpu_limit(Store, name, greylist_limit)
           IN  last' = [op |-> "get_account_cpu_limit", err |-> r.err,
                        name |-> name, greylist_limit |-> greylist_limit,
                        available |-> r.available, greylisted |-> r.greylisted]
        /\ UNCHANGED <<db, next_id, undo_stack, sessions, cache, revision, hist>>

GetAccountNetLimit ==
    \E name \in UsageAccounts, greylist_limit \in GreylistInputs :
        /\ LET r == get_account_net_limit(Store, name, greylist_limit)
           IN  last' = [op |-> "get_account_net_limit", err |-> r.err,
                        name |-> name, greylist_limit |-> greylist_limit,
                        available |-> r.available, greylisted |-> r.greylisted]
        /\ UNCHANGED <<db, next_id, undo_stack, sessions, cache, revision, hist>>

SetBlockParameters ==
    \E p \in ParamInputs :
        /\ Put(set_block_parameters(Store, p[1], p[2]))
        /\ last' = [op |-> "set_block_parameters", err |-> "none"]
        /\ UNCHANGED <<sessions, cache, revision, hist>>

UpdateVirtualCpuLimit ==
    /\ Put(update_virtual_cpu_limit(Store))
    /\ last' = [op |-> "update_virtual_cpu_limit", err |-> "none",
                before |-> StateOf(db).virtual_cpu_limit]
    /\ UNCHANGED <<sessions, cache, revision, hist>>

UpdateVirtualNetLimit ==
    /\ Put(update_virtual_net_limit(Store))
    /\ last' = [op |-> "update_virtual_net_limit", err |-> "none",
                before |-> StateOf(db).virtual_net_limit]
    /\ UNCHANGED <<sessions, cache, revision, hist>>

NextElastic ==
    \/ ChargeElastic
    \/ GetAccountCpuLimit
    \/ GetAccountNetLimit
    \/ SetBlockParameters
    \/ UpdateVirtualCpuLimit
    \/ UpdateVirtualNetLimit

SpecElastic == InitElastic /\ [][NextElastic]_vars

ConfigOf(d) == TheOne(d["resource_limits_config"])

\* What the last query was about: the weight the account is judged by, the
\* total, the parameters' max, the virtual limit, the window and the usage.
Asked ==
    IF last.op = "get_account_cpu_limit"
    THEN [w |-> JudgedLimits(db, last.name).cpu_weight,
          W |-> StateOf(db).total_cpu_weight,
          max |-> ConfigOf(db).cpu_limit_parameters.max,
          VL |-> StateOf(db).virtual_cpu_limit,
          window |-> ConfigOf(db).account_cpu_usage_average_window,
          value_ex |-> UsageOf(db, last.name).cpu_usage.value_ex]
    ELSE [w |-> JudgedLimits(db, last.name).net_weight,
          W |-> StateOf(db).total_net_weight,
          max |-> ConfigOf(db).net_limit_parameters.max,
          VL |-> StateOf(db).virtual_net_limit,
          window |-> ConfigOf(db).account_net_usage_average_window,
          value_ex |-> UsageOf(db, last.name).net_usage.value_ex]

\* The least whole number of units that covers the windowed usage.
UsedRoundedUp(q) ==
    CHOOSE u \in 0..((q.value_ex * q.window) \div rate_limiting_precision + 1) :
        /\ u * rate_limiting_precision >= q.value_ex * q.window
        /\ (u - 1) * rate_limiting_precision < q.value_ex * q.window

\* The greylist cap is in force for this query.
Capped(q) ==
    /\ last.greylist_limit < maximum_elastic_resource_multiplier
    /\ q.max * last.greylist_limit < q.VL

\* VL as the query sees it: capped to max * greylist_limit when that is less.
QueryVL(q) == IF Capped(q) THEN q.max * last.greylist_limit ELSE q.VL

Capacity(q) == (QueryVL(q) * q.window * q.w) \div q.W

Answered ==
    /\ last.op \in {"get_account_cpu_limit", "get_account_net_limit"}
    /\ last.err = "none"

\* C16: for an account with weight w >= 0 while the total W > 0, the cpu and
\* net queries return available = max(0, capacity - used), capacity being
\* floor(VL * window * w / W) with VL capped by the greylist limit of the
\* query and used the windowed usage rounded up, so that available lies in
\* 0..capacity; for w < 0 or W = 0 they return -1 and greylisted = false.
C16_Available ==
    Answered =>
        LET q == Asked
            left == Capacity(q) - UsedRoundedUp(q)
        IN  IF q.w < 0 \/ q.W = 0
            THEN last.available = -1 /\ ~last.greylisted
            ELSE /\ last.available = (IF left > 0 THEN left ELSE 0)
                 /\ last.available >= 0
                 /\ last.available <= Capacity(q)
                 /\ last.greylisted = Capped(q)

\* A charged account that still has something left.
C16_Witness ==
    /\ Answered
    /\ Asked.w >= 0 /\ Asked.W > 0
    /\ UsedRoundedUp(Asked) > 0
    /\ last.available > 0
    /\ last.available < Capacity(Asked)

\* An account that has used more than its capacity.
C16_WitnessNothingLeft ==
    /\ Answered
    /\ Asked.w >= 0 /\ Asked.W > 0
    /\ UsedRoundedUp(Asked) > Capacity(Asked)
    /\ Capacity(Asked) > 0
    /\ last.available = 0

\* A query under a greylist limit that caps a virtual limit above max.
C16_WitnessGreylisted ==
    /\ Answered
    /\ last.greylisted
    /\ last.greylist_limit > 0
    /\ last.available > 0

C16_WitnessUnlimited ==
    /\ Answered
    /\ last.available = -1
    /\ Asked.W > 0


\* What the last update worked on: the parameters, the average and the
\* limit it left.
Updated ==
    IF last.op = "update_virtual_cpu_limit"
    THEN [params |-> ConfigOf(db).cpu_limit_parameters,
          avg |-> StateOf(db).average_block_cpu_usage.value_ex \div rate_limiting_precision,
          limit |-> StateOf(db).virtual_cpu_limit]
    ELSE [params |-> ConfigOf(db).net_limit_parameters,
          avg |-> StateOf(db).average_block_net_usage.value_ex \div rate_limiting_precision,
          limit |-> StateOf(db).virtual_net_limit]

Times(v, rate) == (v * rate.numerator) \div rate.denominator

Clamped(v, lo, hi) == IF v < lo THEN lo ELSE IF v > hi THEN hi ELSE v

InRangeOf(limit, params) ==
    /\ limit >= params.max
    /\ limit <= params.max * params.max_multiplier

IsUpdate == last.op \in {"update_virtual_cpu_limit", "update_virtual_net_limit"}

\* C17: the virtual cpu and net limits start at max of their parameters; an
\* update multiplies the limit by the contract rate exactly when the average
\* usage is strictly greater than target and by the expand rate otherwise,
\* then clamps it, so that after initialization and after every update the
\* limit lies in [max, max * max_multiplier].
C17_ElasticLimit ==
    /\ last.op = "init" =>
          /\ StateOf(db).virtual_cpu_limit = ConfigOf(db).cpu_limit_parameters.max
          /\ StateOf(db).virtual_net_limit = ConfigOf(db).net_limit_parameters.max
          /\ InRangeOf(StateOf(db).virtual_cpu_limit, ConfigOf(db).cpu_limit_parameters)
          /\ InRangeOf(StateOf(db).virtual_net_limit, ConfigOf(db).net_limit_parameters)
    /\ IsUpdate =>
          LET u == Updated
              p == u.params
              rate == IF u.avg > p.target THEN p.contract_rate ELSE p.expand_rate
          IN  /\ u.limit = Clamped(Times(last.before, rate),
                                   p.max, p.max * p.max_multiplier)
              /\ InRangeOf(u.limit, p)

\* An update that contracts a limit that was above max.
C17_Witness ==
    /\ IsUpdate
    /\ Updated.avg > Updated.params.target
    /\ Updated.limit < last.before
    /\ Updated.limit > Updated.params.max

\* An update at average = target, which expands.
C17_WitnessAtTarget ==
    /\ IsUpdate
    /\ Updated.avg = Updated.params.target
    /\ Updated.limit > last.before
    /\ Updated.limit < Updated.params.max * Updated.params.max_multiplier

\* An update that the upper end of the range cuts off.
C17_WitnessTop ==
    /\ IsUpdate
    /\ Updated.params.max_multiplier > 1
    /\ Times(last.before, Updated.params.expand_rate) > Updated.limit
    /\ Updated.limit = Updated.params.max * Updated.params.max_multiplier
    /\ last.before < Updated.limit

\* An update that lifts a limit which new parameters had left below max.
C17_WitnessLifted ==
    /\ IsUpdate
    /\ last.before < Updated.params.max
    /\ Updated.limit = Updated.params.max


\* The bounds a call resolved.
Resolved(bound, default) == IF Len(bound) > 0 THEN convert_to_type(bound) ELSE default

\* A step that is a scan whose upper bound sorts before its lower bound: the
\* first call with the bounds given, or a later call with next_key as the
\* lower bound.
CrossedScan ==
    /\ last'.op = "get_table_rows"
    /\ hist'.pages = hist.pages + 1
    /\ LET lower_bound == IF hist.pages = 0 THEN hist'.p.lower_bound ELSE last.next_key
       IN  Resolved(hist'.p.upper_bound, UINT64_MAX) < Resolved(lower_bound, 0)

C18_Step ==
    CrossedScan =>
        /\ last'.err = "none"
        /\ last'.rows = <<>>
        /\ ~last'.more
        /\ last'.next_key = <<>>

\* C18: a scan whose resolved upper bound sorts before its resolved lower
\* bound returns no rows, more = false and an empty next_key, without error,
\* over the primary index and over the secondary index.
C18_CrossedBoundsEmpty == [][C18_Step]_vars

\* A first call with crossed bounds over a table that has rows.
Crossed ==
    /\ hist.pages = 1
    /\ Resolved(hist.p.upper_bound, UINT64_MAX) < Resolved(hist.p.lower_bound, 0)
    /\ \E r \in db["key_value"] : r.t_id = 0
    /\ \E e \in db["index64"] : e.t_id = 0
    /\ last.rows = <<>> /\ ~last.more

C18_Witness == Crossed /\ hist.p.index_position = "primary"

C18_WitnessSecondary == Crossed /\ hist.p.index_position = "secondary"


(***************************************************************************)
(* SpecDeadline: scans of a table with more rows than max_return_items,    *)
(* some index entries without their row, under a deadline that passes      *)
(* after a number of copied rows.                                          *)
(***************************************************************************)
DeadlineKeys == 1..(max_return_items + 1)

\* The entry of primary key k sorts by secondary key in the opposite order.
DeadlineEntries == {<<k, max_return_items + 2 - k>> : k \in DeadlineKeys}

\* After how many copied rows the clock is past the deadline; 0 for never.
Expiries == 0..max_return_items

ScanLimits == 0..(max_return_items + 2)

InitDeadline ==
    /\ \E keys \in SUBSET DeadlineKeys : db = ScanDb(keys, DeadlineEntries)
    /\ next_id = [ZeroIds EXCEPT !["table_id"] = 2,
                                 !["key_value"] = max_return_items + 2,
                                 !["index64"] = max_return_items + 2]
    /\ undo_stack = <<>>
    /\ sessions = <<>>
    /\ revision = 0
    /\ cache = EmptyCache
    /\ last = NoCall
    /\ hist = [pages |-> 0]

\* A call of get_table_rows; hist keeps its parameters and its expiry.
Scanned(p, expires) ==
    LET R == get_table_rows(Store, p, expires)
    IN  /\ last' = [op |-> "get_table_rows", err |-> R.err, rows |-> R.rows,
                    more |-> R.more, next_key |-> R.next_key]
        /\ hist' = [pages |-> hist.pages + 1, p |-> p, expires |-> expires]
        /\ UNCHANGED <<db, next_id, undo_stack, sessions, cache, revision>>

ScanUnderDeadline ==
    \E index_position \in {"primary", "secondary"}, reverse \in BOOLEAN,
       limit \in ScanLimits, expires \in Expiries :
        /\ hist.pages = 0
        /\ Scanned([code |-> ScanCode, scope |-> Scope, table |-> TableName,
                    lower_bound |-> <<>>, upper_bound |-> <<>>,
                    limit |-> limit, key_type |-> "i64",
                    index_position |-> index_position, reverse |-> reverse],
                   expires)

ContinueUnderDeadline ==
    \E expires \in Expiries :
        /\ hist.pages > 0
        /\ hist.pages < MaxPages
        /\ last.more
        /\ Scanned([hist.p EXCEPT !.lower_bound = last.next_key], expires)

NextDeadline == ScanUnderDeadline \/ ContinueUnderDeadline

SpecDeadline == InitDeadline /\ [][NextDeadline]_vars

\* What the last call was asked for.
CallLower == Resolved(hist.p.lower_bound, 0)

CallUpper == Resolved(hist.p.upper_bound, UINT64_MAX)

OnPrimary == hist.p.index_position = "primary"

HasRow(k) == \E r \in db["key_value"] : r.t_id = 0 /\ r.primary_key = k

\* The secondary key of the entry of primary key k.
SecondaryOf(k) ==
    (CHOOSE e \in db["index64"] : e.t_id = 0 /\ e.primary_key = k).secondary_key

\* The primary keys the walk is over: of the rows in range by primary key,
\* or of the index entries in range by secondary key.
Candidates ==
    IF OnPrimary
    THEN {k \in DeadlineKeys : HasRow(k) /\ k >= CallLower /\ k <= CallUpper}
    ELSE {k \in DeadlineKeys : SecondaryOf(k) >= CallLower /\ SecondaryOf(k) <= CallUpper}

SortKey(k) == IF OnPrimary THEN k ELSE SecondaryOf(k)

WalkedBefore(j, k) ==
    IF hist.p.reverse THEN SortKey(j) > SortKey(k) ELSE SortKey(j) < SortKey(k)

\* The candidates in the order of the walk.
RECURSIVE InOrder(_)
InOrder(set) ==
    IF set = {} THEN <<>>
    ELSE LET k == CHOOSE x \in set : \A y \in set : y = x \/ WalkedBefore(x, y)
         IN  <<k>> \o InOrder(set \ {k})

Min2(a, b) == IF a < b THEN a ELSE b

\* The candidates the walk gets to within its limit, and those of them that
\* have a row to copy.
Visited ==
    LET all == InOrder(Candidates)
    IN  SubSeq(all, 1, Min2(Len(all), Min2(hist.p.limit, max_return_items)))

Copyable == SelectSeq(Visited, HasRow)

\* The deadline passes during the last scan: the walk gets to copy the row
\* after which the clock is past it.
DeadlinePassed ==
    /\ last.op = "get_table_rows"
    /\ last.err = "none"
    /\ hist.expires > 0
    /\ Len(Copyable) >= hist.expires

PartialResults ==
    DeadlinePassed =>
        /\ last.rows = SubSeq(Copyable, 1, hist.expires)
        /\ last.more
        /\ last.next_key # <<>>

C19_WitnessNoRow ==
    /\ last.op = "get_table_rows"
    /\ ~OnPrimary
    /\ hist.p.limit > 0
    /\ \E k \in Candidates : HasRow(k)
    /\ last.rows = <<>>
    /\ last.more

\* C20: under the deadline that get_table_rows always supplies, a scan
\* returns at most min(limit, max_return_items) rows.
C20_RowsWithinLimit ==
    last.op = "get_table_rows" =>
        /\ Len(last.rows) <= hist.p.limit
        /\ Len(last.rows) <= max_return_items

\* A limit above max_return_items over more rows than that, with no deadline
\* passing: max_return_items rows and more = true.
C20_Witness ==
    /\ last.op = "get_table_rows"
    /\ hist.p.limit > max_return_items
    /\ hist.expires = 0
    /\ Len(InOrder(Candidates)) > max_return_items
    /\ Len(last.rows) = max_return_items
    /\ last.more


(***************************************************************************)
(* Permission links: (account, code, message_type) -> required_permission. *)
(***************************************************************************)
any_name == 6

\* config::billable_size_v of a permission row and of a permission-link
\* row, scaled with the word.
billable_size_v_permission_object == 3

billable_size_v_permission_link_object == 2

\* authority::get_billable_size: grows with the keys of the authority.
get_billable_size(auth) == Cardinality(auth)

\* get_permission: an empty actor or permission name, or no row on by_owner,
\* is rethrown as permission_query_exception.
get_permission(S, actor, permission) ==
    LET found == {p \in S.db["permission"] : p.owner = actor /\ p.perm_name = permission}
    IN  IF actor = 0 \/ permission = 0 \/ found = {}
        THEN [err |-> "permission_query_exception", row |-> NULL]
        ELSE [err |-> "none", row |-> TheOne(found)]

\* The by_permission_name range of (account, permission_name).
LinksRequiring(S, account, permission_name) ==
    {l \in S.db["permission_link"] : l.account = account /\ l.required_permission = permission_name}

delete_auth_ignoring_links(S, account, permission_name) ==
    LET g == get_permission(S, account, permission_name)
        old_size == billable_size_v_permission_object + get_billable_size(g.row.auth)
        r == remove_permission(S, g.row)
    IN  IF g.err # "none" THEN [S |-> S, err |-> g.err, ret |-> 0]
        ELSE IF r.err # "none" THEN [S |-> S, err |-> r.err, ret |-> 0]
        ELSE [S |-> r.S, err |-> "none", ret |-> old_size]

\* delete_auth: refused while a link of the account requires the permission;
\* the size is taken before remove_permission runs.
delete_auth(S, account, permission_name) ==
    LET g == get_permission(S, account, permission_name)
        old_size == billable_size_v_permission_object + get_billable_size(g.row.auth)
        r == remove_permission(S, g.row)
    IN  IF LinksRequiring(S, account, permission_name) # {}
        THEN [S |-> S, err |-> "action_validate_exception", ret |-> 0]
        ELSE IF g.err # "none" THEN [S |-> S, err |-> g.err, ret |-> 0]
        ELSE IF r.err # "none" THEN [S |-> S, err |-> r.err, ret |-> 0]
        ELSE [S |-> r.S, err |-> "none", ret |-> old_size]

\* find<permission_link_object, by_action_name>: the rows under the key.
FindLink(S, account, code, message_type) ==
    {l \in S.db["permission_link"] : l.account = account /\ l.code = code /\ l.message_type = message_type}

link_auth_billing_updates(S, account_name, code_name, requirement_name, requirement_type) ==
    LET link == FindLink(S, account_name, code_name, requirement_type)
        size == billable_size_v_permission_link_object
    IN  IF ~(\E a \in S.db["account"] : a.name = account_name)
        THEN [S |-> S, err |-> "account_query_exception", ret |-> 0]
        ELSE IF ~(\E a \in S.db["account"] : a.name = code_name)
        THEN [S |-> S, err |-> "account_query_exception", ret |-> 0]
        ELSE IF requirement_name # any_name
                /\ ~(\E p \in S.db["permission"] : p.owner = account_name /\ p.perm_name = requirement_name)
        THEN [S |-> S, err |-> "permission_query_exception", ret |-> 0]
        ELSE IF link # {}
        THEN IF TheOne(link).required_permission = requirement_name
             THEN [S |-> S, err |-> "action_validate_exception", ret |-> 0]
             ELSE [S |-> Modify(S, "permission_link", TheOne(link).id,
                                [TheOne(link) EXCEPT !.required_permission = requirement_name]),
                   err |-> "none", ret |-> size]
        ELSE [S |-> Create(S, "permission_link",
                           [id |-> 0, account |-> account_name, code |-> code_name,
                            message_type |-> requirement_type,
                            required_permission |-> requirement_name]).S,
              err |-> "none", ret |-> size]

link_auth_accepting_same(S, account_name, code_name, requirement_name, requirement_type) ==
    LET link == FindLink(S, account_name, code_name, requirement_type)
        size == billable_size_v_permission_link_object
    IN  IF ~(\E a \in S.db["account"] : a.name = account_name)
        THEN [S |-> S, err |-> "account_query_exception", ret |-> 0]
        ELSE IF ~(\E a \in S.db["account"] : a.name = code_name)
        THEN [S |-> S, err |-> "account_query_exception", ret |-> 0]
        ELSE IF requirement_name # any_name
                /\ ~(\E p \in S.db["permission"] : p.owner = account_name /\ p.perm_name = requirement_name)
        THEN [S |-> S, err |-> "permission_query_exception", ret |-> 0]
        ELSE IF link # {}
        THEN [S |-> Modify(S, "permission_link", TheOne(link).id,
                           [TheOne(link) EXCEPT !.required_permission = requirement_name]),
              err |-> "none", ret |-> 0]
        ELSE [S |-> Create(S, "permission_link",
                           [id |-> 0, account |-> account_name, code |-> code_name,
                            message_type |-> requirement_type,
                            required_permission |-> requirement_name]).S,
              err |-> "none", ret |-> size]

\* link_auth that does not look for the permission.
link_auth_unchecked_permission(S, account_name, code_name, requirement_name, requirement_type) ==
    LET link == FindLink(S, account_name, code_name, requirement_type)
        size == billable_size_v_permission_link_object
    IN  IF ~(\E a \in S.db["account"] : a.name = account_name)
        THEN [S |-> S, err |-> "account_query_exception", ret |-> 0]
        ELSE IF ~(\E a \in S.db["account"] : a.name = code_name)
        THEN [S |-> S, err |-> "account_query_exception", ret |-> 0]
        ELSE IF link # {}
        THEN IF TheOne(link).required_permission = requirement_name
             THEN [S |-> S, err |-> "action_validate_exception", ret |-> 0]
             ELSE [S |-> Modify(S, "permission_link", TheOne(link).id,
                                [TheOne(link) EXCEPT !.required_permission = requirement_name]),
                   err |-> "none", ret |-> 0]
        ELSE [S |-> Create(S, "permission_link",
                           [id |-> 0, account |-> account_name, code |-> code_name,
                            message_type |-> requirement_type,
                            required_permission |-> requirement_name]).S,
              err |-> "none", ret |-> size]

\* link_auth: both accounts exist, the permission exists unless the
\* requirement is any_name; a link under the key is modified (return 0), a
\* missing one is created (return the billable size of a link row).
link_auth(S, account_name, code_name, requirement_name, requirement_type) ==
    LET link == FindLink(S, account_name, code_name, requirement_type)
        size == billable_size_v_permission_link_object
    IN  IF ~(\E a \in S.db["account"] : a.name = account_name)
        THEN [S |-> S, err |-> "account_query_exception", ret |-> 0]
        ELSE IF ~(\E a \in S.db["account"] : a.name = code_name)
        THEN [S |-> S, err |-> "account_query_exception", ret |-> 0]
        ELSE IF requirement_name # any_name
                /\ ~(\E p \in S.db["permission"] : p.owner = account_name /\ p.perm_name = requirement_name)
        THEN [S |-> S, err |-> "permission_query_exception", ret |-> 0]
        ELSE IF link # {}
        THEN IF TheOne(link).required_permission = requirement_name
             THEN [S |-> S, err |-> "action_validate_exception", ret |-> 0]
             ELSE [S |-> Modify(S, "permission_link", TheOne(link).id,
                                [TheOne(link) EXCEPT !.required_permission = requirement_name]),
                   err |-> "none", ret |-> 0]
        ELSE [S |-> Create(S, "permission_link",
                           [id |-> 0, account |-> account_name, code |-> code_name,
                            message_type |-> requirement_type,
                            required_permission |-> requirement_name]).S,
              err |-> "none", ret |-> size]

\* unlink_auth that reports the size of a link row it did not find.
unlink_auth_billing_missing(S, account_name, code_name, requirement_type) ==
    LET link == FindLink(S, account_name, code_name, requirement_type)
    IN  IF link = {}
        THEN [S |-> S, err |-> "none", ret |-> Negate(billable_size_v_permission_link_object)]
        ELSE [S |-> Remove(S, "permission_link", TheOne(link).id),
              err |-> "none", ret |-> Negate(billable_size_v_permission_link_object)]

\* unlink_auth: the link under the key is removed.
unlink_auth(S, account_name, code_name, requirement_type) ==
    LET link == FindLink(S, account_name, code_name, requirement_type)
    IN  IF link = {}
        THEN [S |-> S, err |-> "action_validate_exception", ret |-> 0]
        ELSE [S |-> Remove(S, "permission_link", TheOne(link).id),
              err |-> "none", ret |-> Negate(billable_size_v_permission_link_object)]

lookup_linked_permission_default_first(S, authorizer_account, scope, act_name) ==
    LET exact == FindLink(S, authorizer_account, scope, act_name)
        default == FindLink(S, authorizer_account, scope, 0)
    IN  IF default # {} THEN TheOne(default).required_permission
        ELSE IF exact # {} THEN TheOne(exact).required_permission
        ELSE NULL

\* lookup_linked_permission: the link under the exact key, else the link
\* under the key with the empty action name, else none.
lookup_linked_permission(S, authorizer_account, scope, act_name) ==
    LET exact == FindLink(S, authorizer_account, scope, act_name)
        default == FindLink(S, authorizer_account, scope, 0)
    IN  IF exact # {} THEN TheOne(exact).required_permission
        ELSE IF default # {} THEN TheOne(default).required_permission
        ELSE NULL

(***************************************************************************)
(* SpecLink: linking, unlinking, looking up and deleting permissions after *)
(* initialize_database.                                                    *)
(***************************************************************************)
MaxLinkIds == 2          \* permission-link ids handed out

LinkAccounts == {system_account_name, producers_account_name, 4}

LinkCodes == {system_account_name, null_account_name}

LinkRequirements == {active_name, any_name}

LinkActions == {0, 1}

DeleteAccounts == {system_account_name, producers_account_name}

DeleteNames == {active_name, minority_producers_permission_name, any_name}

LookupAccounts == {system_account_name, producers_account_name}

LookupScopes == {system_account_name, null_account_name}

InitLink == InitPerm

LinkAuth ==
    \E account \in LinkAccounts, code \in LinkCodes, requirement \in LinkRequirements, type \in LinkActions :
        /\ next_id["permission_link"] < MaxLinkIds
        /\ LET R == link_auth(Store, account, code, requirement, type)
           IN  /\ Put(R.S)
               /\ last' = [op |-> "link_auth", err |-> R.err, ret |-> R.ret,
                           account |-> account, code |-> code,
                           type |-> type, requirement |-> requirement]
        /\ UNCHANGED <<sessions, cache, hist, revision>>

UnlinkAuth ==
    \E account \in LinkAccounts, code \in LinkCodes, type \in LinkActions :
        LET R == unlink_auth(Store, account, code, type)
        IN  /\ Put(R.S)
            /\ last' = [op |-> "unlink_auth", err |-> R.err, ret |-> R.ret,
                        account |-> account, code |-> code, type |-> type]
            /\ UNCHANGED <<sessions, cache, hist, revision>>

DeleteAuth ==
    \E account \in DeleteAccounts, permission_name \in DeleteNames :
        LET R == delete_auth(Store, account, permission_name)
        IN  /\ Put(R.S)
            /\ last' = [op |-> "delete_auth", err |-> R.err, ret |-> R.ret,
                        account |-> account, name |-> permission_name]
            /\ UNCHANGED <<sessions, cache, hist, revision>>

LookupLinkedPermission ==
    \E account \in LookupAccounts, scope \in LookupScopes, action \in LinkActions :
        /\ last' = [op |-> "lookup_linked_permission",
                    err |-> "none",
                    ret |-> lookup_linked_permission(Store, account, scope, action),
                    account |-> account, code |-> scope, type |-> action]
        /\ UNCHANGED <<db, next_id, undo_stack, sessions, cache, hist, revision>>

NextLink == LinkAuth \/ UnlinkAuth \/ DeleteAuth \/ LookupLinkedPermission

SpecLink == InitLink /\ [][NextLink]_vars


\* The permission that delete_auth was called on, in the store before the call.
Deleted == {p \in db["permission"] : p.owner = last'.account /\ p.perm_name = last'.name}

Linked == \E l \in db["permission_link"] : l.account = last'.account /\ l.required_permission = last'.name

RemovedWithUsage ==
    LET P == TheOne(Deleted)
    IN  /\ last'.err = "none"
        /\ db'["permission"] = db["permission"] \ {P}
        /\ db'["permission_usage"] = {u \in db["permission_usage"] : u.id # P.usage_id}
        /\ \A T \in Types \ {"permission", "permission_usage"} : db'[T] = db[T]
        /\ last'.ret = billable_size_v_permission_object + get_billable_size(P.auth)

C21_AsStatedStep ==
    last'.op = "delete_auth" =>
        IF Linked THEN last'.err = "action_validate_exception" /\ db' = db
        ELSE Deleted # {} /\ RemovedWithUsage

C21_AsStated == [][C21_AsStatedStep]_vars

C21_Step ==
    last'.op = "delete_auth" =>
        IF Linked THEN last'.err = "action_validate_exception" /\ db' = db
        ELSE IF Deleted = {} THEN last'.err = "permission_query_exception" /\ db' = db
        ELSE IF ChildrenOf(db, TheOne(Deleted).id) # {}
        THEN last'.err = "action_validate_exception" /\ db' = db
        ELSE RemovedWithUsage

\* C21: delete_auth(account, name) fails with action_validate_exception and
\* removes nothing while a permission link of that account requires name;
\* with no such link it fails with permission_query_exception when the
\* account has no permission of that name and with action_validate_exception
\* when the permission still has children, removing nothing either way;
\* otherwise it removes the permission and its usage row, no other row, and
\* returns the fixed permission row size plus the billable size the
\* authority had before the removal.
C21_DeleteAuth == [][C21_Step]_vars

\* A delete refused because of a link.
C21_WitnessLinked ==
    /\ last.op = "delete_auth"
    /\ last.err = "action_validate_exception"
    /\ \E l \in db["permission_link"] : l.account = last.account /\ l.required_permission = last.name

\* A permission with a key in its authority deleted while another account
\* holds a link requiring a permission of the same name.
C21_Witness ==
    /\ last.op = "delete_auth"
    /\ last.err = "none"
    /\ last.ret = billable_size_v_permission_object + 1
    /\ \E l \in db["permission_link"] : l.account # last.account /\ l.required_permission = last.name
    /\ ~(\E p \in db["permission"] : p.owner = last.account /\ p.perm_name = last.name)


\* The link under the key of the last call, in the store before the call.
LinkBefore == {l \in db["permission_link"] : l.account = last'.account /\ l.code = last'.code /\ l.message_type = last'.type}

C22_AsStatedStep ==
    /\ (last'.op = "link_auth" /\ last'.err = "none") =>
           last'.ret = billable_size_v_permission_link_object
    /\ (last'.op = "unlink_auth" /\ last'.err = "none") =>
           last'.ret = -billable_size_v_permission_link_object

C22_AsStated == [][C22_AsStatedStep]_vars

C22_Step ==
    /\ (last'.op = "link_auth" /\ last'.err = "none") =>
           /\ last'.ret = IF LinkBefore = {} THEN billable_size_v_permission_link_object ELSE 0
           /\ billable_size_v_permission_link_object > 0
           /\ Cardinality(db'["permission_link"]) = Cardinality(db["permission_link"]) + (IF LinkBefore = {} THEN 1 ELSE 0)
    /\ (last'.op = "unlink_auth" /\ last'.err = "none") =>
           /\ last'.ret = -billable_size_v_permission_link_object
           /\ Cardinality(db'["permission_link"]) = Cardinality(db["permission_link"]) - 1
    /\ (last'.op \in {"link_auth", "unlink_auth"} /\ last'.err # "none") =>
           db' = db

\* C22: a link_auth that creates a link returns the fixed billable size of a
\* permission-link row, a positive number; a link_auth that changes the
\* required permission of an existing link adds no row and returns 0; a
\* successful unlink_auth removes one row and returns the negated size; a
\* failed call changes nothing.
C22_LinkDelta == [][C22_Step]_vars

\* A link was created, then pointed at another permission for a delta of 0.
C22_Witness ==
    /\ last.op = "link_auth"
    /\ last.err = "none"
    /\ last.ret = 0
    /\ Cardinality(db["permission_link"]) = 1

C22_WitnessUnlink ==
    /\ last.op = "unlink_auth"
    /\ last.err = "none"
    /\ last.ret = -billable_size_v_permission_link_object
    /\ db["permission_link"] = {}


\* The permission the last link_auth asked for exists, or it asked for any_name.
RequirementExists ==
    \/ last'.requirement = any_name
    \/ \E p \in db["permission"] : p.owner = last'.account /\ p.perm_name = last'.requirement

C23_OnePerKey ==
    \A l, m \in db["permission_link"] :
        (l.account = m.account /\ l.code = m.code /\ l.message_type = m.message_type) => l = m

C23_Step ==
    (last'.op = "link_auth" /\ LinkBefore # {}) =>
        LET link == TheOne(LinkBefore)
        IN  IF link.required_permission = last'.requirement
            THEN last'.err = "action_validate_exception" /\ db' = db /\ next_id' = next_id
            ELSE IF RequirementExists
            THEN /\ last'.err = "none"
                 /\ db'["permission_link"] =
                        (db["permission_link"] \ {link})
                            \cup {[link EXCEPT !.required_permission = last'.requirement]}
                 /\ next_id' = next_id
            ELSE last'.err = "permission_query_exception" /\ db' = db

\* C23: a link_auth for a key (account, code, action) that is linked to the
\* same required permission fails with action_validate_exception and changes
\* nothing; when the key is linked to another permission and the permission
\* asked for exists (or is any_name), the row of the link keeps its id and
\* key and gets the new required permission, and no row is added; in every
\* reachable state at most one link exists per (account, code, action).
C23_Relink == [][C23_Step /\ C23_OnePerKey /\ C23_OnePerKey']_vars

\* A call repeated the requirement of the one link there is and was refused.
C23_Witness ==
    /\ last.op = "link_auth"
    /\ last.err = "action_validate_exception"
    /\ Cardinality(db["permission_link"]) = 1
    /\ next_id["permission_link"] = 1
    /\ \E l \in db["permission_link"] :
          /\ l.account = last.account /\ l.code = last.code
          /\ l.message_type = last.type /\ l.required_permission = last.requirement

\* A link that was created requiring one permission requires another now.
C23_WitnessUpdated ==
    /\ last.op = "link_auth"
    /\ last.err = "none"
    /\ next_id["permission_link"] = 1
    /\ \E l \in db["permission_link"] :
          /\ l.id = 0 /\ l.message_type = last.type
          /\ l.required_permission = last.requirement
          /\ last.requirement = any_name
    /\ last.ret = 0


\* The links of the account and scope of the last lookup under an action name.
LinksUnder(act_name) == {l \in db["permission_link"] : l.account = last.account /\ l.code = last.code /\ l.message_type = act_name}

\* C24: lookup_linked_permission(account, scope, action) returns the
\* required permission of the link under (account, scope, action) when there
\* is one; else that of the link under (account, scope, empty action) when
\* there is one; else no link.  What it returns is the required permission
\* of a link of that account and scope.
C24_MostSpecific ==
    last.op = "lookup_linked_permission" =>
        /\ IF LinksUnder(last.type) # {}
           THEN \E l \in LinksUnder(last.type) : last.ret = l.required_permission
           ELSE IF LinksUnder(0) # {}
           THEN \E l \in LinksUnder(0) : last.ret = l.required_permission
           ELSE last.ret = NULL
        /\ last.ret # NULL =>
               \E l \in db["permission_link"] :
                   /\ l.account = last.account /\ l.code = last.code
                   /\ l.message_type \in {last.type, 0}
                   /\ l.required_permission = last.ret

\* An exact link and a default link with another requirement: the exact one
\* was returned.
C24_Witness ==
    /\ last.op = "lookup_linked_permission"
    /\ last.type # 0
    /\ \E e \in LinksUnder(last.type), d \in LinksUnder(0) :
          e.required_permission # d.required_permission /\ last.ret = e.required_permission

\* Only a default link: it was returned for a named action.
C24_WitnessDefault ==
    /\ last.op = "lookup_linked_permission"
    /\ last.type # 0
    /\ LinksUnder(last.type) = {}
    /\ \E d \in LinksUnder(0) : last.ret = d.required_permission

\* Links exist, under another account or scope only: no link was returned.
C24_WitnessOther ==
    /\ last.op = "lookup_linked_permission"
    /\ last.ret = NULL
    /\ \E l \in db["permission_link"] : l.message_type = last.type /\ l.account = last.account /\ l.code # last.code
    /\ \E l \in db["permission_link"] : l.message_type = last.type /\ l.account # last.account /\ l.code # last.code


\* The permissions whose usage_id is the id of usage row u.
ReferencedBy(u) == {p \in db["permission"] : p.usage_id = u.id}

\* C25: after initialize_database and any sequence of create_permission
\* (failing ones included) and remove_permission, every permission's
\* usage_id is the id of a permission_usage row, and every permission_usage
\* row is the usage row of exactly one permission.
C25_UsageOneToOne ==
    /\ \A p \in db["permission"] : \E u \in db["permission_usage"] : u.id = p.usage_id
    /\ \A u \in db["permission_usage"] : Cardinality(ReferencedBy(u)) = 1


\* The table the last create_key_value_object was called on, before and
\* after the call.
TableBefore == TheOne({t \in db["table_id"] : t.id = last'.t_id})

TableAfter == TheOne({t \in db'["table_id"] : t.id = last'.t_id})

KeyTaken == \E r \in db["key_value"] : r.t_id = last'.t_id /\ r.primary_key = last'.primary_key

Inserted ==
    /\ last'.err = "none"
    /\ \E r \in db'["key_value"] \ db["key_value"] :
          /\ db'["key_value"] = db["key_value"] \cup {r}
          /\ r.t_id = last'.t_id /\ r.primary_key = last'.primary_key /\ r.payer = last'.payer
    /\ TableAfter.count = TableBefore.count + 1
    /\ \A t \in db["table_id"] : t.id # last'.t_id => t \in db'["table_id"]

C26_AsStatedStep ==
    last'.op = "create_key_value_object" =>
        IF last'.payer = 0
        THEN last'.err = "invalid_table_payer" /\ db' = db
        ELSE Inserted

C26_AsStated == [][C26_AsStatedStep]_vars

C26_Step ==
    last'.op = "create_key_value_object" =>
        IF last'.payer = 0
        THEN last'.err = "invalid_table_payer" /\ db' = db /\ next_id' = next_id
        ELSE IF KeyTaken
        THEN last'.err = "duplicate_key" /\ db' = db
        ELSE Inserted

\* C26: create_key_value_object with payer 0 fails with invalid_table_payer
\* and leaves rows, counts and id counters as they were, whether or not the
\* primary key is taken; with a non-zero payer and a primary key the table
\* does not hold yet it adds exactly that row and raises the count of that
\* table, and of no other, by 1; with a non-zero payer and a primary key the
\* table holds already the insert fails and nothing changes.
C26_PayerChecked == [][C26_Step]_vars

\* The null payer was refused for a key the table does not hold, in a table
\* that has a row.
C26_Witness ==
    /\ last.op = "create_key_value_object"
    /\ last.err = "invalid_table_payer"
    /\ ~(\E r \in db["key_value"] : r.t_id = last.t_id /\ r.primary_key = last.primary_key)
    /\ \E t \in db["table_id"] : t.id = last.t_id /\ t.count = 1

\* A second row went into a table.
C26_WitnessInserted ==
    /\ last.op = "create_key_value_object"
    /\ last.err = "none"
    /\ last.payer # 0
    /\ last.pre_count = 1
    /\ \E t \in db["table_id"] : t.id = last.t_id /\ t.count = 2


C23_AsStatedStep ==
    (last'.op = "link_auth" /\ LinkBefore # {}) =>
        LET link == TheOne(LinkBefore)
        IN  IF link.required_permission = last'.requirement
            THEN last'.err = "action_validate_exception" /\ db' = db
            ELSE /\ last'.err = "none"
                 /\ db'["permission_link"] =
                        (db["permission_link"] \ {link})
                            \cup {[link EXCEPT !.required_permission = last'.requirement]}

C23_AsStated == [][C23_AsStatedStep /\ C23_OnePerKey /\ C23_OnePerKey']_vars

\* A key linked to any_name was asked to require a permission that had been
\* deleted: the call failed and the link is as it was.
C23_WitnessMissing ==
    /\ last.op = "link_auth"
    /\ last.err = "permission_query_exception"
    /\ \E l \in db["permission_link"] :
          /\ l.account = last.account /\ l.code = last.code
          /\ l.message_type = last.type /\ l.required_permission = any_name


\* What the query would have left had it been made without a greylist limit.
AvailableUncapped(q) ==
    LET left == (q.VL * q.window * q.w) \div q.W - UsedRoundedUp(q)
    IN  IF left > 0 THEN left ELSE 0

AvailableCapped(q) ==
    LET left == (q.max * last.greylist_limit * q.window * q.w) \div q.W - UsedRoundedUp(q)
    IN  IF left > 0 THEN left ELSE 0

\* The answer of the last query, for an account with weight >= 0 while the
\* total weight is > 0.
GreylistAnswer ==
    (Answered /\ Asked.w >= 0 /\ Asked.W > 0) =>
        LET q == Asked
            below == /\ last.greylist_limit < maximum_elastic_resource_multiplier
                     /\ q.max * last.greylist_limit < q.VL
        IN  /\ last.greylisted <=> below
            /\ last.available = (IF below THEN AvailableCapped(q) ELSE AvailableUncapped(q))
            /\ last.available <= AvailableUncapped(q)

C27_QueryStep ==
    last'.op \in {"get_account_cpu_limit", "get_account_net_limit"} =>
        /\ db' = db
        /\ next_id' = next_id
        /\ undo_stack' = undo_stack
        /\ GreylistAnswer'

\* C27: the cpu and the net query leave every row, every id counter and the
\* undo log as they were; for both alike, on an account with weight >= 0
\* while the total weight is > 0, greylisted is true exactly when the
\* greylist limit is below maximum_elastic_resource_multiplier and
\* max * greylist_limit is below the virtual limit; then max * greylist_limit
\* stands in for the virtual limit in what is available, otherwise the
\* virtual limit itself does; what is available under a greylist limit is at
\* most what is available without one.
C27_Greylist == [][C27_QueryStep]_vars

\* A net query that the greylist limit cut short.
C27_Witness ==
    /\ Answered
    /\ last.op = "get_account_net_limit"
    /\ last.greylisted
    /\ last.available > 0
    /\ last.available < AvailableUncapped(Asked)

\* The same for cpu.
C27_WitnessCpu ==
    /\ Answered
    /\ last.op = "get_account_cpu_limit"
    /\ last.greylisted
    /\ last.available > 0
    /\ last.available < AvailableUncapped(Asked)

\* A greylist limit below the multiplier that does not bite: max times the
\* limit is not below the virtual limit.
C27_WitnessNotBelow ==
    /\ Answered
    /\ last.greylist_limit < maximum_elastic_resource_multiplier
    /\ Asked.w >= 0 /\ Asked.W > 0
    /\ ~last.greylisted
    /\ last.available > 0


\* The limits rows of an account, active or pending.
LimitRows(d, pending, a) == {r \in d["resource_limits"] : r.pending = pending /\ r.owner = a}

Initialized(a) == \E u \in db["resource_usage"] : u.owner = a

C28_OneActiveOnePending ==
    \A a \in Accounts :
        /\ Cardinality(LimitRows(db, TRUE, a)) <= 1
        /\ Cardinality(LimitRows(db, FALSE, a)) = (IF Initialized(a) THEN 1 ELSE 0)
        /\ ~Initialized(a) => LimitRows(db, TRUE, a) = {}

C28_Step ==
    /\ C28_OneActiveOnePending /\ C28_OneActiveOnePending'
    /\ (last'.op = "set_account_limits" /\ last'.err = "none") =>
          LET a == last'.account
              before == LimitRows(db, TRUE, a)
              after == LimitRows(db', TRUE, a)
          IN  /\ Cardinality(after) = 1
              /\ hist'.expected[a] = {TripleOf(TheOne(after))}
              /\ LimitRows(db', FALSE, a) = LimitRows(db, FALSE, a)
              /\ \A b \in Accounts \ {a} :
                     /\ LimitRows(db', TRUE, b) = LimitRows(db, TRUE, b)
                     /\ LimitRows(db', FALSE, b) = LimitRows(db, FALSE, b)
              /\ before # {} =>
                     /\ TheOne(after).id = TheOne(before).id
                     /\ next_id' = next_id
                     /\ Cardinality(db'["resource_limits"]) = Cardinality(db["resource_limits"])

\* C28: in every reachable state an initialized account has exactly one
\* active limits row and at most one pending row, and an account that was
\* never initialized has neither; a set_account_limits on an account that
\* has a pending row writes its values into that row (same id, no row added,
\* no id handed out) and leaves the active row and the rows of the other
\* accounts as they were.
C28_SinglePendingRow == [][C28_Step]_vars

\* A set_account_limits on an account whose pending row is older than the
\* newest limits row: the call found the row and wrote into it, and the
\* active row is still at its defaults.
C28_Witness ==
    /\ last.op = "set_account_limits"
    /\ last.err = "none"
    /\ \E p \in LimitRows(db, TRUE, last.account), q \in LimitRows(db, FALSE, last.account) :
          /\ p.id + 1 < next_id["resource_limits"]
          /\ TripleOf(p) = Limits(1, 0, -1)
          /\ TripleOf(q) = DefaultLimits
    /\ hist.fresh = {last.account}


(***************************************************************************)
(* SpecRetry: limit updates on three initialized accounts whose limits     *)
(* have been set and processed once, with further set_account_limits and   *)
(* process_account_limit_updates calls, repeated ones included.            *)
(***************************************************************************)
MaxRetryRowIds == 8      \* resource_limits rows created, those of InitRetry included

RECURSIVE initialize_accounts(_, _)
initialize_accounts(S, todo) ==
    IF todo = {} THEN S
    ELSE LET a == CHOOSE x \in todo : \A y \in todo : x <= y
         IN  initialize_accounts(initialize_account_resource_limits(S, a).S, todo \ {a})

RECURSIVE set_all_account_limits(_, _, _)
set_all_account_limits(S, todo, l) ==
    IF todo = {} THEN S
    ELSE LET a == CHOOSE x \in todo : \A y \in todo : x <= y
         IN  set_all_account_limits(
                 set_account_limits(S, a, l[a].ram_bytes, l[a].net_weight, l[a].cpu_weight).S,
                 todo \ {a}, l)

InitRetry ==
    /\ \E l \in [Accounts -> LimitInputs] :
          LET S0 == initialize_resource_limits(
                        [db |-> EmptyDb, next_id |-> ZeroIds, undo |-> <<>>])
              S1 == initialize_accounts(S0, Accounts)
              R == process_account_limit_updates(set_all_account_limits(S1, Accounts, l))
          IN  /\ R.err = "none"
              /\ db = R.S.db /\ next_id = R.S.next_id /\ undo_stack = R.S.undo
              /\ hist = [expected |-> [a \in Accounts |-> {l[a]}], fresh |-> {}]
    /\ sessions = <<>>
    /\ revision = 0
    /\ cache = EmptyCache
    /\ last = NoCall

SetAccountLimitsAgain ==
    \E a \in Accounts, l \in LimitInputs :
        /\ next_id["resource_limits"] < MaxRetryRowIds
        /\ LET R == set_account_limits(Store, a, l.ram_bytes, l.net_weight, l.cpu_weight)
           IN  /\ Put(R.S)
               /\ last' = [op |-> "set_account_limits", err |-> R.err, account |-> a]
               /\ hist' = IF R.err = "none"
                          THEN [expected |-> [hist.expected EXCEPT ![a] = {l}],
                                fresh |-> hist.fresh \cup {a}]
                          ELSE hist
        /\ UNCHANGED <<sessions, cache, revision>>

NextRetry == SetAccountLimitsAgain \/ ProcessAccountLimitUpdates

SpecRetry == InitRetry /\ [][NextRetry]_vars

C29_Step ==
    last'.op = "process_account_limit_updates" =>
        /\ \A a \in Accounts :
               LimitRows(db, TRUE, a) = {} => LimitRows(db', FALSE, a) = LimitRows(db, FALSE, a)
        /\ (\A a \in Accounts : LimitRows(db, TRUE, a) = {}) => db' = db
        /\ last.op = "process_account_limit_updates" => db' = db

\* C29: process_account_limit_updates leaves the active row of every account
\* that has no pending row as it was; called while no account has a pending
\* row it leaves every row, the totals included, as it was; called right
\* after another process_account_limit_updates it changes nothing.
C29_Idempotent == [][C29_Step]_vars


\* C30: the RAM usage of every account is at most INT64_MAX in every
\* reachable state, and get_account_ram_usage never returns a negative
\* number.
C30_RamUsageSigned ==
    /\ \A a \in RamAccounts : RamUsage(db, a) <= INT64_MAX
    /\ (last.op = "get_account_ram_usage" /\ last.err = "none") => last.ret >= 0

(***************************************************************************)
(* SpecBlock: transactions of consecutive blocks are charged to one        *)
(* account.  The block a transaction belongs to is the time slot it is     *)
(* charged at; the history keeps the slot of the current block and the     *)
(* usage the calls of that block added to the block totals.                *)
(***************************************************************************)
BlockWeights == {Limits(-1, -1, -1), Limits(-1, INT64_MAX, INT64_MAX)}

BlockUsage == {<<1, 0>>, <<3, 4>>, <<4, 4>>}

BlockSlots == {0, 1, 2}

InitBlock ==
    /\ \E l1 \in BlockWeights :
           LET S == UsageStore(l1, Limits(-1, INT64_MAX, INT64_MAX), {})
           IN  db = S.db /\ next_id = S.next_id /\ undo_stack = S.undo
    /\ sessions = <<>>
    /\ revision = 0
    /\ cache = EmptyCache
    /\ last = NoCall
    /\ hist = [slot |-> 0, cpu |-> 0, net |-> 0, calls |-> 0]

\* A transaction of the current block or of a later one.
AddBlockUsage ==
    \E u \in BlockUsage, time_slot \in BlockSlots :
        /\ hist.calls < MaxCalls
        /\ time_slot >= hist.slot
        /\ LET R == add_transaction_usage(Store, <<1>>, u[1], u[2], time_slot)
               added == R.err \in {"none", "block_resource_exhausted"}
               cpu == IF time_slot = hist.slot THEN hist.cpu ELSE 0
               net == IF time_slot = hist.slot THEN hist.net ELSE 0
           IN  /\ Put(R.S)
               /\ last' = [op |-> "add_transaction_usage", err |-> R.err,
                           time_slot |-> time_slot,
                           cpu_usage |-> u[1], net_usage |-> u[2]]
               /\ hist' = [slot |-> time_slot,
                           cpu |-> IF added THEN cpu + u[1] ELSE cpu,
                           net |-> IF added THEN net + u[2] ELSE net,
                           calls |-> hist.calls + 1]
        /\ UNCHANGED <<sessions, cache, revision>>

\* The virtual limits are brought up to date between the transactions.
NextBlock == AddBlockUsage \/ UpdateVirtualCpuLimit \/ UpdateVirtualNetLimit

SpecBlock == InitBlock /\ [][NextBlock]_vars

\* C31: the block totals pending_cpu_usage and pending_net_usage hold the
\* usage of the current block's transactions only, so a call fails with
\* block_resource_exhausted only when the current block's own usage is above
\* a configured maximum.
C31_PendingPerBlock ==
    /\ StateOf(db).pending_cpu_usage = hist.cpu
    /\ StateOf(db).pending_net_usage = hist.net
    /\ (last.op = "add_transaction_usage" /\ last.err = "block_resource_exhausted") =>
           \/ hist.cpu > ConfigOf(db).cpu_limit_parameters.max
           \/ hist.net > ConfigOf(db).net_limit_parameters.max

(***************************************************************************)
(* Sequence numbers and the reference-counted code rows.  A reference to   *)
(* an object is the object's id; the counters are uint64_t.                *)
(***************************************************************************)
Inc64(x) == (x + 1) % (UINT64_MAX + 1)

Dec64(x) == (x - 1) % (UINT64_MAX + 1)

\* set_privileged: the privileged bit of the flags.
set_privileged(S, account_name, is_priv) ==
    LET found == {a \in S.db["account_metadata"] : a.name = account_name}
        a == TheOne(found)
    IN  IF found = {} THEN [S |-> S, err |-> "out_of_range"]
        ELSE [S |-> Modify(S, "account_metadata", a.id,
                           [a EXCEPT !.flags = IF is_priv THEN 1 ELSE 0]),
              err |-> "none"]

\* next_recv_sequence: ++recv_sequence of the receiver, and the new value.
next_recv_sequence(S, receiver_account) ==
    LET ra == Get(S, "account_metadata", receiver_account)
        S1 == Modify(S, "account_metadata", ra.id,
                     [ra EXCEPT !.recv_sequence = Inc64(@)])
    IN  [S |-> S1, err |-> "none",
         value |-> Get(S1, "account_metadata", receiver_account).recv_sequence]

\* next_auth_sequence: the actor is looked up by name.
next_auth_sequence(S, actor) ==
    LET found == {a \in S.db["account_metadata"] : a.name = actor}
        amo == TheOne(found)
        S1 == Modify(S, "account_metadata", amo.id,
                     [amo EXCEPT !.auth_sequence = Inc64(@)])
    IN  IF found = {} THEN [S |-> S, err |-> "out_of_range", value |-> 0]
        ELSE [S |-> S1, err |-> "none",
              value |-> Get(S1, "account_metadata", amo.id).auth_sequence]

next_global_sequence_returning_old(S) ==
    LET p == TheOne(S.db["dynamic_global_property"])
        S1 == Modify(S, "dynamic_global_property", p.id,
                     [p EXCEPT !.global_action_sequence = Inc64(@)])
    IN  [S |-> S1, err |-> "none", value |-> p.global_action_sequence]

\* next_global_sequence: the value is read through the reference after the
\* increment.
next_global_sequence(S) ==
    LET p == TheOne(S.db["dynamic_global_property"])
        S1 == Modify(S, "dynamic_global_property", p.id,
                     [p EXCEPT !.global_action_sequence = Inc64(@)])
    IN  [S |-> S1, err |-> "none",
         value |-> TheOne(S1.db["dynamic_global_property"]).global_action_sequence]

\* find<code_object, by_code_hash>
FindCode(S, code_hash, vm_type, vm_version) ==
    {o \in S.db["code"] :
        o.code_hash = code_hash /\ o.vm_type = vm_type /\ o.vm_version = vm_version}

unlink_account_code_keeping_zero(S, old_code_entry) ==
    LET o == Get(S, "code", old_code_entry)
    IN  IF o.code_ref_count = 0 THEN Remove(S, "code", o.id)
        ELSE Modify(S, "code", o.id, [o EXCEPT !.code_ref_count = Dec64(@)])

\* unlink_account_code: the last reference removes the row.
unlink_account_code(S, old_code_entry) ==
    LET o == Get(S, "code", old_code_entry)
    IN  IF o.code_ref_count = 1 THEN Remove(S, "code", o.id)
        ELSE Modify(S, "code", o.id, [o EXCEPT !.code_ref_count = Dec64(@)])

\* update_account_code: the code row of non-empty code is created or gains a
\* reference; the account's code_sequence grows in either case.
update_account_code(S, account, new_code, head_block_num, pending_block_time, code_hash, vm_type, vm_version) ==
    LET new_code_entry == FindCode(S, code_hash, vm_type, vm_version)
        o == TheOne(new_code_entry)
        S1 == IF Len(new_code) = 0 THEN S
              ELSE IF new_code_entry # {}
              THEN Modify(S, "code", o.id, [o EXCEPT !.code_ref_count = Inc64(@)])
              ELSE Create(S, "code",
                          [id |-> 0, code_hash |-> code_hash, code |-> new_code,
                           code_ref_count |-> 1,
                           first_block_used |-> head_block_num + 1,
                           vm_type |-> vm_type, vm_version |-> vm_version]).S
        a == Get(S1, "account_metadata", account)
    IN  Modify(S1, "account_metadata", a.id,
               [a EXCEPT !.code_sequence = Inc64(@), !.code_hash = code_hash,
                         !.vm_type = vm_type, !.vm_version = vm_version,
                         !.last_code_update = pending_block_time])

\* update_account_abi: abi_sequence of the metadata row, then the ABI of the
\* account row.
update_account_abi(S, account, account_metadata, abi) ==
    LET am == Get(S, "account_metadata", account_metadata)
        S1 == Modify(S, "account_metadata", am.id,
                     [am EXCEPT !.abi_sequence = Inc64(@)])
        a == Get(S1, "account", account)
    IN  Modify(S1, "account", a.id, [a EXCEPT !.abi = abi])

(***************************************************************************)
(* SpecCode: two accounts whose actions are sequenced and whose code and   *)
(* ABI are set; a code row is unlinked when an account gives its code up.  *)
(***************************************************************************)
MaxCodeCalls == 3

CodeAccounts == {1, 2}

\* <<new_code, code_hash>>: no code, and a contract.
CodeInputs == {<<<<>>, 0>>, <<<<1>>, 1>>}

VmVersions == {0, 1}

InitCode ==
    /\ LET S0 == [db |-> EmptyDb, next_id |-> ZeroIds, undo |-> <<>>]
           S1 == Create(S0, "dynamic_global_property",
                        [id |-> 0, global_action_sequence |-> 0]).S
           S2 == create_account_metadata(create_account(S1, 1, 0).S, 1, FALSE).S
           S3 == create_account_metadata(create_account(S2, 2, 0).S, 2, FALSE).S
       IN  db = S3.db /\ next_id = S3.next_id /\ undo_stack = S3.undo
    /\ sessions = <<>>
    /\ revision = 0
    /\ cache = EmptyCache
    /\ last = NoCall
    /\ hist = 0

NextRecvSequence ==
    \E ra \in db["account_metadata"] :
        /\ hist < MaxCodeCalls
        /\ LET R == next_recv_sequence(Store, ra.id)
           IN  /\ Put(R.S)
               /\ last' = [op |-> "next_recv_sequence", err |-> R.err,
                           account |-> ra.name, value |-> R.value]
        /\ hist' = hist + 1
        /\ UNCHANGED <<sessions, cache, revision>>

NextAuthSequence ==
    \E actor \in CodeAccounts \cup {3} :
        /\ hist < MaxCodeCalls
        /\ LET R == next_auth_sequence(Store, actor)
           IN  /\ Put(R.S)
               /\ last' = [op |-> "next_auth_sequence", err |-> R.err,
                           account |-> actor, value |-> R.value]
        /\ hist' = hist + 1
        /\ UNCHANGED <<sessions, cache, revision>>

NextGlobalSequence ==
    /\ hist < MaxCodeCalls
    /\ LET R == next_global_sequence(Store)
       IN  /\ Put(R.S)
           /\ last' = [op |-> "next_global_sequence", err |-> R.err,
                       account |-> 0, value |-> R.value]
    /\ hist' = hist + 1
    /\ UNCHANGED <<sessions, cache, revision>>

UpdateAccountCode ==
    \E a \in db["account_metadata"], c \in CodeInputs, vm_version \in VmVersions :
        /\ hist < MaxCodeCalls
        /\ Put(update_account_code(Store, a.id, c[1], 0, 1, c[2], 0, vm_version))
        /\ last' = [op |-> "update_account_code", err |-> "none",
                    account |-> a.name, new_code |-> c[1], code_hash |-> c[2],
                    vm_type |-> 0, vm_version |-> vm_version]
        /\ hist' = hist + 1
        /\ UNCHANGED <<sessions, cache, revision>>

UpdateAccountAbi ==
    \E a \in db["account"], abi \in {<<1>>} :
        /\ hist < MaxCodeCalls
        /\ LET am == TheOne({m \in db["account_metadata"] : m.name = a.name})
           IN  Put(update_account_abi(Store, a.id, am.id, abi))
        /\ last' = [op |-> "update_account_abi", err |-> "none",
                    account |-> a.name]
        /\ hist' = hist + 1
        /\ UNCHANGED <<sessions, cache, revision>>

UnlinkAccountCode ==
    \E o \in db["code"] :
        /\ Put(unlink_account_code(Store, o.id))
        /\ last' = [op |-> "unlink_account_code", err |-> "none",
                    account |-> 0, id |-> o.id]
        /\ UNCHANGED <<sessions, cache, revision, hist>>

SetPrivileged ==
    \E is_priv \in BOOLEAN :
        /\ LET R == set_privileged(Store, 1, is_priv)
           IN  /\ Put(R.S)
               /\ last' = [op |-> "set_privileged", err |-> R.err, account |-> 1]
        /\ UNCHANGED <<sessions, cache, revision, hist>>

NextCode ==
    \/ NextRecvSequence
    \/ NextAuthSequence
    \/ NextGlobalSequence
    \/ UpdateAccountCode
    \/ UpdateAccountAbi
    \/ UnlinkAccountCode
    \/ SetPrivileged

SpecCode == InitCode /\ [][NextCode]_vars

MetaOf(d, a) == TheOne({m \in d["account_metadata"] : m.name = a})

GlobalSeq(d) == TheOne(d["dynamic_global_property"]).global_action_sequence

\* 1 when the step is a successful call of op for account a, else 0.
Called(op, a) ==
    IF last'.op = op /\ last'.err = "none" /\ last'.account = a THEN 1 ELSE 0

SequenceOps == {"next_recv_sequence", "next_auth_sequence", "next_global_sequence"}

C33_Step ==
    /\ \A a \in CodeAccounts :
         /\ MetaOf(db', a).recv_sequence
              = MetaOf(db, a).recv_sequence + Called("next_recv_sequence", a)
         /\ MetaOf(db', a).auth_sequence
              = MetaOf(db, a).auth_sequence + Called("next_auth_sequence", a)
         /\ MetaOf(db', a).code_sequence
              = MetaOf(db, a).code_sequence + Called("update_account_code", a)
         /\ MetaOf(db', a).abi_sequence
              = MetaOf(db, a).abi_sequence + Called("update_account_abi", a)
    /\ {m.name : m \in db'["account_metadata"]} = CodeAccounts
    /\ Cardinality(db'["account_metadata"]) = Cardinality(CodeAccounts)
    /\ GlobalSeq(db') = GlobalSeq(db) + Called("next_global_sequence", 0)
    /\ Cardinality(db'["dynamic_global_property"]) = 1
    /\ (last'.op = "next_recv_sequence" /\ last'.err = "none") =>
           last'.value = MetaOf(db', last'.account).recv_sequence
    /\ (last'.op = "next_auth_sequence" /\ last'.err = "none") =>
           last'.value = MetaOf(db', last'.account).auth_sequence
    /\ last'.op = "next_global_sequence" => last'.value = GlobalSeq(db')
    /\ (/\ last'.op \in SequenceOps
        /\ last.op = last'.op
        /\ last.account = last'.account
        /\ last.err = "none"
        /\ last'.err = "none") => last'.value = last.value + 1

\* C33: recv_sequence, auth_sequence, code_sequence and abi_sequence of an
\* account and the global action sequence each grow by exactly 1 in a call
\* of their operation for that account and stay as they are in every other
\* step; the next_* operations return the value after the increment, so two
\* calls in a row return consecutive values.
C33_CountersStepByOne == [][C33_Step]_vars

\* The second of two next_auth_sequence calls of an account in a row, after
\* the other account received an action.
C33_Witness ==
    /\ last.op = "next_auth_sequence"
    /\ last.err = "none"
    /\ last.value = 2
    /\ \E a \in CodeAccounts \ {last.account} : MetaOf(db, a).recv_sequence = 1

KeyOfCall(o) ==
    /\ o.code_hash = last'.code_hash
    /\ o.vm_type = last'.vm_type
    /\ o.vm_version = last'.vm_version

C34_CountsPositive == \A o \in db["code"] : o.code_ref_count >= 1

C34_Step ==
    /\ C34_CountsPositive'
    /\ \A o, q \in db'["code"] :
           (o.code_hash = q.code_hash /\ o.vm_type = q.vm_type
              /\ o.vm_version = q.vm_version) => o = q
    /\ (last'.op = "update_account_code" /\ Len(last'.new_code) > 0) =>
           LET before == {o \in db["code"] : KeyOfCall(o)}
               after == {o \in db'["code"] : KeyOfCall(o)}
           IN  /\ Cardinality(after) = 1
               /\ IF before = {} THEN TheOne(after).code_ref_count = 1
                  ELSE TheOne(after) =
                           [TheOne(before) EXCEPT !.code_ref_count = @ + 1]
               /\ db'["code"] \ after = db["code"] \ before
    /\ last'.op = "unlink_account_code" =>
           LET o == TheOne({x \in db["code"] : x.id = last'.id})
           IN  IF o.code_ref_count = 1 THEN db'["code"] = db["code"] \ {o}
               ELSE db'["code"] = (db["code"] \ {o})
                        \cup {[o EXCEPT !.code_ref_count = @ - 1]}
    /\ (/\ last'.op # "unlink_account_code"
        /\ ~(last'.op = "update_account_code" /\ Len(last'.new_code) > 0)) =>
           db'["code"] = db["code"]

\* C34: every stored code row has code_ref_count >= 1 and there is one row
\* per (code_hash, vm_type, vm_version); update_account_code with non-empty
\* code creates the row of its key with count 1 or adds 1 to the count of the
\* row that is there; unlink_account_code removes a row of count 1 and takes
\* 1 off any other; nothing else touches the code rows.
C34_RefCounted == [][C34_Step]_vars

\* A code row shared by both accounts is gone after both references were
\* unlinked: one row id was ever handed out.
C34_Witness ==
    /\ last.op = "unlink_account_code"
    /\ db["code"] = {}
    /\ next_id["code"] = 1
    /\ \A a \in CodeAccounts : MetaOf(db, a).code_hash = 1

(***************************************************************************)
(* The read paths of api.cpp.  They take the store by const reference; an  *)
(* operator returns the store it leaves behind together with its answer.   *)
(* An ABI is the sequence of the names of the tables it declares; an asset *)
(* is <<amount, symbol>> and a symbol is valid when it is not 0.           *)
(***************************************************************************)
token_code == 5          \* "pulse.token"_n

accounts_n == 32         \* "accounts"_n

stat_n == 48             \* "stat"_n

rammarket_n == 64        \* "rammarket"_n

RAMCORE == 3             \* string_to_symbol_c(4, "RAMCORE")

\* "delband"_n, "refunds"_n, "voters"_n, "rexbal"_n
SystemTables == {80, 96, 112, 128}

AssetLayout == <<"amount", "symbol">>

StatsLayout == <<"supply", "supply_symbol", "max_supply", "max_supply_symbol", "issuer">>

\* get_abi: the ABI of an account that exists.
get_abi(S, account) ==
    LET code_accnt == {a \in S.db["account"] : a.name = account}
    IN  IF code_accnt = {} THEN [S |-> S, err |-> "account_query_exception", abi |-> <<>>]
        ELSE [S |-> S, err |-> "none", abi |-> TheOne(code_accnt).abi]

\* get_table_type: the table has to be declared by the ABI.
get_table_type(abi, table_name) ==
    IF InSeq(abi, table_name) THEN "none" ELSE "contract_table_query_exception"

\* idx.find(make_tuple(t_id, key)) on by_scope_primary.
FindKey(S, code, scope, table, key) ==
    {r \in S.db["key_value"] :
        r.t_id = find_table(S, code, scope, table) /\ r.primary_key = key}

walk_key_value_table_in_session(S, code, scope, table) ==
    LET t_id == find_table(S, code, scope, table)
    IN  [S |-> create_undo_session(S, TRUE).S,
         rows |-> IF t_id = NULL THEN <<>>
                  ELSE PrimaryRange(LowerBound(S, t_id, 0) \ LowerBound(S, t_id + 1, 0))]

\* walk_key_value_table: the rows of the table in primary-key order, from
\* lower_bound(t_id) up to lower_bound(t_id + 1); the callers stop where
\* their function returns false.
walk_key_value_table(S, code, scope, table) ==
    LET t_id == find_table(S, code, scope, table)
    IN  [S |-> S,
         rows |-> IF t_id = NULL THEN <<>>
                  ELSE PrimaryRange(LowerBound(S, t_id, 0) \ LowerBound(S, t_id + 1, 0))]

\* The function get_currency_balance walks the accounts table with.
RECURSIVE BalanceWalk(_, _, _, _)
BalanceWalk(rows, i, symbol, results) ==
    IF i > Len(rows) THEN [err |-> "none", result |-> results]
    ELSE LET cursor == rows[i].value
         IN  IF Len(cursor) < Len(AssetLayout)
             THEN [err |-> "asset_type_exception", result |-> <<>>]
             ELSE IF cursor[2] = 0
             THEN [err |-> "asset_type_exception", result |-> <<>>]
             ELSE IF symbol = {} THEN BalanceWalk(rows, i + 1, symbol, Append(results, cursor))
             ELSE IF cursor[2] \in symbol
             THEN [err |-> "none", result |-> Append(results, cursor)]
             ELSE BalanceWalk(rows, i + 1, symbol, results)

\* get_currency_balance: symbol is the set of the symbol asked for, empty for
\* every balance.
get_currency_balance(S, code, account, symbol) ==
    LET abi == get_abi(S, code)
        W == walk_key_value_table(abi.S, code, account, accounts_n)
        R == BalanceWalk(W.rows, 1, symbol, <<>>)
    IN  IF abi.err # "none" THEN [S |-> abi.S, err |-> abi.err, result |-> <<>>]
        ELSE IF get_table_type(abi.abi, accounts_n) # "none"
        THEN [S |-> abi.S, err |-> get_table_type(abi.abi, accounts_n), result |-> <<>>]
        ELSE [S |-> W.S, err |-> R.err, result |-> R.result]

\* The function get_currency_stats walks the stat table with: the result of
\* a later row replaces that of an earlier one under the same symbol.
RECURSIVE StatsWalk(_, _, _)
StatsWalk(rows, i, results) ==
    IF i > Len(rows) THEN [err |-> "none", result |-> results]
    ELSE LET v == rows[i].value
         IN  IF Len(v) < Len(StatsLayout)
             THEN [err |-> "asset_type_exception", result |-> {}]
             ELSE StatsWalk(rows, i + 1,
                      {r \in results : r.supply[2] # v[2]}
                          \cup {[supply |-> <<v[1], v[2]>>,
                                 max_supply |-> <<v[3], v[4]>>, issuer |-> v[5]]})

\* get_currency_stats: the scope is the code of the symbol.
get_currency_stats(S, code, symbol) ==
    LET abi == get_abi(S, code)
        W == walk_key_value_table(abi.S, code, symbol, stat_n)
        R == StatsWalk(W.rows, 1, {})
    IN  IF abi.err # "none" THEN [S |-> abi.S, err |-> abi.err, result |-> {}]
        ELSE IF get_table_type(abi.abi, stat_n) # "none"
        THEN [S |-> abi.S, err |-> get_table_type(abi.abi, stat_n), result |-> {}]
        ELSE [S |-> W.S, err |-> R.err, result |-> R.result]

\* extract_core_symbol: the symbol in the RAMCORE row of the system
\* contract's rammarket table, 0 without one.
extract_core_symbol(S) ==
    LET it == FindKey(S, system_account_name, system_account_name, rammarket_n, RAMCORE)
    IN  IF it = {} THEN 0
        ELSE IF Len(TheOne(it).value) < Len(AssetLayout) THEN 0
        ELSE TheOne(it).value[2]

\* The actions linked to a permission name of the account.
get_linked_actions(S, account_name, perm_name) ==
    {[account |-> l.code, action |-> l.message_type] :
        l \in {x \in S.db["permission_link"] :
                  x.account = account_name /\ x.required_permission = perm_name}}

\* get_account_info: limits, usage, permissions with their parents and
\* linked actions, and what the system and token contracts hold for the
\* account.  Every failure leaves as account_query_exception.
get_account_info(S, account, expected_core_symbol, head_block_time) ==
    LET lim == get_account_limits(S, account)
        accnt_obj == {a \in S.db["account"] : a.name = account}
        accnt_metadata_obj == {a \in S.db["account_metadata"] : a.name = account}
        greylist_limit == maximum_elastic_resource_multiplier
        net_limit == get_account_net_limit_ex(S, account, greylist_limit, {head_block_time})
        cpu_limit == get_account_cpu_limit_ex(S, account, greylist_limit, {head_block_time})
        ram_usage == get_account_ram_usage(S, account)
        perms == {p \in S.db["permission"] : p.owner = account}
        parent(perm) == IF perm.parent = 0 THEN {}
                        ELSE {p \in S.db["permission"] : p.id = perm.parent}
        code_account == {a \in S.db["account"] : a.name = system_account_name}
        core_symbol == IF expected_core_symbol # {} THEN TheOne(expected_core_symbol)
                       ELSE extract_core_symbol(S)
        bal == {r.value : r \in {x \in FindKey(S, token_code, account, accounts_n, core_symbol) :
                                    /\ Len(x.value) >= Len(AssetLayout)
                                    /\ x.value[2] # 0
                                    /\ x.value[2] = core_symbol}}
        lookup_object(obj_name, account_name) ==
            {r.value : r \in FindKey(S, system_account_name, account_name, obj_name, account)}
        failed ==
            \/ lim.err # "none"
            \/ accnt_obj = {}
            \/ accnt_metadata_obj = {}
            \/ net_limit.err # "none"
            \/ cpu_limit.err # "none"
            \/ ram_usage.err # "none"
            \/ \E perm \in perms : \E p \in parent(perm) : p.owner # perm.owner
            \/ code_account = {}
    IN  IF failed THEN [S |-> S, err |-> "account_query_exception", result |-> <<>>]
        ELSE [S |-> S, err |-> "none",
              result |->
                [account_name |-> account,
                 ram_quota |-> lim.ram_bytes, net_weight |-> lim.net_weight,
                 cpu_weight |-> lim.cpu_weight,
                 privileged |-> TheOne(accnt_metadata_obj).flags = 1,
                 last_code_update |-> TheOne(accnt_metadata_obj).last_code_update,
                 created |-> TheOne(accnt_obj).creation_date,
                 net_limit |-> net_limit.arl, cpu_limit |-> cpu_limit.arl,
                 ram_usage |-> ram_usage.ret,
                 permissions |->
                    {[perm_name |-> perm.perm_name,
                      parent |-> {p.perm_name : p \in parent(perm)},
                      required_auth |-> perm.auth,
                      linked_actions |-> get_linked_actions(S, account, perm.perm_name)]
                        : perm \in perms},
                 eosio_any_linked_actions |-> get_linked_actions(S, account, any_name),
                 core_liquid_balance |->
                    IF Len(TheOne(code_account).abi) > 0 THEN bal ELSE {},
                 system_rows |->
                    IF Len(TheOne(code_account).abi) > 0
                    THEN [t \in SystemTables |->
                            lookup_object(t, IF t \in {80, 96} THEN account
                                             ELSE system_account_name)]
                    ELSE <<>>]]

\* get_table_rows_internal: the ABI of the code account is fetched first and,
\* on the primary index, has to declare the table.
get_table_rows_internal(S, p, expires) ==
    LET abi == get_abi(S, p.code)
        n == get_table_index_name(p.table, p.index_position)
        R == get_table_rows(abi.S, p, expires)
        none == [rows |-> <<>>, more |-> FALSE, next_key |-> <<>>]
    IN  IF abi.err # "none" THEN [S |-> abi.S, err |-> abi.err, result |-> none]
        ELSE IF n.err = "none" /\ n.primary /\ get_table_type(abi.abi, p.table) # "none"
        THEN [S |-> abi.S, err |-> get_table_type(abi.abi, p.table), result |-> none]
        ELSE [S |-> abi.S, err |-> R.err,
              result |-> [rows |-> R.rows, more |-> R.more, next_key |-> R.next_key]]

(***************************************************************************)
(* SpecRead: queries against the store of initialize_database with a token *)
(* contract, while balances are written and an undo session is started.    *)
(* The history keeps the answers of the first queries since the last       *)
(* write.                                                                  *)
(***************************************************************************)
MaxAnswers == 2

MaxWrites == 2

\* What the second balance row of the account holds: an asset, a value too
\* short for one, an asset with an invalid symbol.
BalanceValues == {<<7, 2>>, <<7>>, <<7, 0>>}

\* The token account with its ABI, on top of the store S.
TokenAccount(S) ==
    TheOne(
      {update_account_abi(m, TheOne({a \in m.db["account"] : a.name = token_code}).id,
           TheOne({a \in m.db["account_metadata"] : a.name = token_code}).id,
           <<accounts_n, stat_n>>) :
         m \in {create_account_metadata(c, token_code, FALSE).S :
           c \in {create_account(S, token_code, 0).S}}})

\* The balances of the producers account in table 0, the statistics of
\* symbol 1 in table 1 and the RAM market of the system contract in table 2.
ReadStore(second) ==
    TheOne(
      {create_key_value_object(s8, 2, 1, RAMCORE, <<0, 1>>).S :
        s8 \in {create_table(s7, system_account_name, system_account_name, rammarket_n, 1).S :
         s7 \in {create_key_value_object(s6, 1, 1, 1, <<5, 1, 9, 1, system_account_name>>).S :
          s6 \in {create_table(s5, token_code, 1, stat_n, 1).S :
           s5 \in {create_key_value_object(s4, 0, 1, 2, second).S :
            s4 \in {create_key_value_object(s3, 0, 1, 1, <<5, 1>>).S :
             s3 \in {create_table(s2, token_code, producers_account_name, accounts_n, 1).S :
              s2 \in {TokenAccount(initialize_database)}}}}}}}})

InitRead ==
    /\ \E second \in BalanceValues :
           LET S == ReadStore(second)
           IN  db = S.db /\ next_id = S.next_id /\ undo_stack = S.undo
    /\ sessions = <<>>
    /\ revision = 0
    /\ cache = EmptyCache
    /\ last = NoCall
    /\ hist = [answers |-> <<>>, writes |-> 0]

\* The queries, as <<operation, three arguments>>.
TableQueries == {<<"get_table_rows", token_code, 0, 1>>, <<"get_table_rows", token_code, 1, 1>>, <<"get_table_rows", 9, 0, 1>>}

AccountQueries == {<<"get_account_info", producers_account_name, 0, 0>>, <<"get_account_info", producers_account_name, 2, 0>>, <<"get_account_info", 9, 0, 0>>}

BalanceQueries == {<<"get_currency_balance", token_code, producers_account_name, 0>>, <<"get_currency_balance", token_code, producers_account_name, 2>>, <<"get_currency_balance", 9, producers_account_name, 0>>}

StatsQueries == {<<"get_currency_stats", token_code, 1, 0>>, <<"get_currency_stats", token_code, 2, 0>>}

Optional(x) == IF x = 0 THEN {} ELSE {x}

TableParams(q) ==
    [code |-> q[2], scope |-> producers_account_name, table |-> accounts_n,
     lower_bound |-> <<>>, upper_bound |-> <<>>, limit |-> q[4], key_type |-> "i64",
     index_position |-> IF q[3] = 0 THEN "primary" ELSE "secondary",
     reverse |-> FALSE]

\* The answer to a query in a store.
Answer(S, q) ==
    CASE q[1] = "get_table_rows" -> get_table_rows_internal(S, TableParams(q), 0)
      [] q[1] = "get_account_info" -> get_account_info(S, q[2], Optional(q[3]), 1)
      [] q[1] = "get_currency_balance" -> get_currency_balance(S, q[2], q[3], Optional(q[4]))
      [] q[1] = "get_currency_stats" -> get_currency_stats(S, q[2], q[3])

\* A query is answered; the first answers since the last write are kept.
Queried(q) ==
    /\ \E R \in {Answer(Store, q)} :
           /\ Put(R.S)
           /\ last' = [op |-> q[1], err |-> R.err, query |-> q, result |-> R.result]
           /\ hist' = IF q \in DOMAIN hist.answers
                         \/ Cardinality(DOMAIN hist.answers) >= MaxAnswers
                      THEN hist
                      ELSE [hist EXCEPT !.answers =
                               [x \in DOMAIN hist.answers \cup {q} |->
                                   IF x = q THEN [err |-> R.err, result |-> R.result]
                                   ELSE hist.answers[x]]]
    /\ UNCHANGED <<sessions, cache, revision>>

GetTableRows == \E q \in TableQueries : Queried(q)

GetAccountInfo == \E q \in AccountQueries : Queried(q)

GetCurrencyBalance == \E q \in BalanceQueries : Queried(q)

GetCurrencyStats == \E q \in StatsQueries : Queried(q)

\* The contract writes the first balance of the account.
UpdateBalance ==
    \E amount \in {5, 6} :
        /\ hist.writes < MaxWrites
        /\ LET obj == TheOne(FindKey(Store, token_code, producers_account_name, accounts_n, 1))
               R == update_key_value_object(Store, obj.id, 1, <<amount, 1>>)
           IN  /\ Put(R.S)
               /\ last' = [op |-> "update_key_value_object", err |-> R.err]
        /\ hist' = [answers |-> <<>>, writes |-> hist.writes + 1]
        /\ UNCHANGED <<sessions, cache, revision>>

\* The writer starts its undo session.
StartSession ==
    /\ sessions = <<>>
    /\ LET R == create_undo_session(Store, TRUE)
       IN  /\ Put(R.S)
           /\ sessions' = Append(sessions, R.session)
    /\ last' = [op |-> "create_undo_session", err |-> "none"]
    /\ UNCHANGED <<cache, revision, hist>>

NextRead ==
    \/ GetTableRows
    \/ GetAccountInfo
    \/ GetCurrencyBalance
    \/ GetCurrencyStats
    \/ UpdateBalance
    \/ StartSession

SpecRead == InitRead /\ [][NextRead]_vars

ReadOps == {"get_table_rows", "get_account_info", "get_currency_balance", "get_currency_stats"}

C32_Step ==
    last'.op \in ReadOps =>
        /\ db' = db
        /\ next_id' = next_id
        /\ undo_stack' = undo_stack
        /\ sessions' = sessions
        /\ revision' = revision
        /\ last'.query \in DOMAIN hist.answers =>
               /\ last'.err = hist.answers[last'.query].err
               /\ last'.result = hist.answers[last'.query].result

\* C32: a call of get_table_rows, get_account_info, get_currency_balance or
\* get_currency_stats leaves every row, the id counters, the undo stack, the
\* live sessions and revision() as they were, whether it answers or fails;
\* and a query repeated after other queries, with no write in between, gets
\* the answer it got before.
C32_ReadsLeaveStore == [][C32_Step]_vars

\* A balance query answered again, inside the writer's session after a
\* write, with the same rows as its first answer, another query in between.
C32_Witness ==
    /\ last.op = "get_currency_balance"
    /\ last.err = "none"
    /\ Len(last.result) = 2
    /\ last.query \in DOMAIN hist.answers
    /\ Cardinality(DOMAIN hist.answers) = 2
    /\ hist.writes > 0
    /\ Len(undo_stack) = 1
    /\ Len(undo_stack[1].log) > 0

\* C35: total_ram_bytes, total_cpu_weight and total_net_weight each equal
\* the sum of the values above zero of the active rows of all accounts, in
\* every state reached through initialize_account_resource_limits,
\* set_account_limits and process_account_limit_updates.
C35_TotalsAreSums ==
    LET active == {r \in db["resource_limits"] : ~r.pending}
    IN  /\ StateOf(db).total_ram_bytes = SumPos(active, "ram_bytes")
        /\ StateOf(db).total_cpu_weight = SumPos(active, "cpu_weight")
        /\ StateOf(db).total_net_weight = SumPos(active, "net_weight")


(***************************************************************************)
(* more and next_key of a scan result against the rows left in range.      *)
(***************************************************************************)
Returned == {last.rows[i] : i \in 1..Len(last.rows)}

\* The in-range rows the result does not hold, in the order of the walk.
Unreturned == SelectSeq(InOrder(Candidates), LAMBDA k : HasRow(k) /\ k \notin Returned)

MoreAndNextKey ==
    IF last.more
    THEN /\ Unreturned # <<>>
         /\ last.next_key = <<SortKey(Head(Unreturned))>>
    ELSE Unreturned = <<>>

\* C36: a scan result with more = true leaves at least one in-range row
\* unreturned and next_key is the key of the first of them in scan
\* direction; with more = false every in-range row was returned; whether the
\* walk stopped at the limit or at the deadline, and over a secondary index
\* also when an entry has no row.
C36_MoreAndNextKey ==
    (last.op = "get_table_rows" /\ last.err = "none") => MoreAndNextKey


(***************************************************************************)
(* The window capacity of an account against that of the network.          *)
(***************************************************************************)
\* max_user_use_in_window of the cpu check for account a, as the call
\* computes it from the weights get_account_limits hands it.
MaxUserCpuInWindow(d, a) ==
    (StateOf(d).virtual_cpu_limit * AverageWindow * JudgedLimits(d, a).cpu_weight)
        \div StateOf(d).total_cpu_weight

MaxUserNetInWindow(d, a) ==
    (StateOf(d).virtual_net_limit * AverageWindow * JudgedLimits(d, a).net_weight)
        \div StateOf(d).total_net_weight

CapacityWithinNetwork(d, a) ==
    /\ (JudgedLimits(d, a).cpu_weight >= 0 /\ StateOf(d).total_cpu_weight > 0) =>
          /\ JudgedLimits(d, a).cpu_weight <= StateOf(d).total_cpu_weight
          /\ MaxUserCpuInWindow(d, a) <= StateOf(d).virtual_cpu_limit * AverageWindow
    /\ (JudgedLimits(d, a).net_weight >= 0 /\ StateOf(d).total_net_weight > 0) =>
          /\ JudgedLimits(d, a).net_weight <= StateOf(d).total_net_weight
          /\ MaxUserNetInWindow(d, a) <= StateOf(d).virtual_net_limit * AverageWindow

\* C37: the window capacity add_transaction_usage computes for an account
\* never exceeds the capacity of the whole network: the weight it uses for
\* the account is at most the total weight it divides by, also while new
\* weights of the account are pending.
C37_CapacityWithinNetwork ==
    (last.op = "add_transaction_usage" /\ last.err = "none") =>
        \A a \in Listed(last.accounts) : CapacityWithinNetwork(db, a)


(***************************************************************************)
(* SpecCharge: add_transaction_usage inside an undo session, which is      *)
(* undone afterwards.                                                      *)
(***************************************************************************)
InitCharge ==
    /\ \E l1 \in WeightInputs, l2 \in WeightInputs \ {Limits(-1, 1, 1)},
          override \in {{}, {Limits(-1, INT64_MAX, INT64_MAX)}} :
           \E R \in {create_undo_session(UsageStore(l1, l2, override), TRUE)} :
               /\ db = R.S.db
               /\ next_id = R.S.next_id
               /\ undo_stack = R.S.undo
               /\ sessions = <<R.session>>
    /\ revision = 0
    /\ cache = EmptyCache
    /\ last = NoCall
    /\ hist = 0

\* The session is undone; last keeps how the call before it ended.
UndoCharge ==
    /\ sessions # <<>>
    /\ Put(undo(Store))
    /\ sessions' = <<>>
    /\ last' = [op |-> "undo", err |-> "none", after |-> last.err]
    /\ UNCHANGED <<cache, revision, hist>>

NextCharge == AddTransactionUsage \/ UndoCharge

SpecCharge == InitCharge /\ [][NextCharge]_vars

\* The usage row of an account after the transaction was added to it.
Charged(d, a, cpu_usage, net_usage, time_slot) ==
    [UsageOf(d, a) EXCEPT
        !.net_usage = usage_add(@, net_usage, time_slot,
                                ConfigOf(d).account_net_usage_average_window).acc,
        !.cpu_usage = usage_add(@, cpu_usage, time_slot,
                                ConfigOf(d).account_cpu_usage_average_window).acc]

\* The place in the list of the account the call failed on.
FailedAt(call) == CHOOSE i \in 1..Len(call.accounts) : call.accounts[i] = call.account

C38_AccountFailure ==
    last'.err \in {"tx_cpu_usage_exceeded", "tx_net_usage_exceeded"} =>
        \E time_slot \in Slots :
            /\ \A i \in 1..FailedAt(last') :
                  UsageOf(db', last'.accounts[i])
                    = Charged(db, last'.accounts[i], last'.cpu_usage, last'.net_usage, time_slot)
            /\ \A i \in (FailedAt(last') + 1)..Len(last'.accounts) :
                  UsageOf(db', last'.accounts[i]) = UsageOf(db, last'.accounts[i])
            /\ StateOf(db') = StateOf(db)

C38_BlockFailure ==
    last'.err = "block_resource_exhausted" =>
        \E time_slot \in Slots :
            /\ \A a \in Listed(last'.accounts) :
                  UsageOf(db', a) = Charged(db, a, last'.cpu_usage, last'.net_usage, time_slot)
            /\ StateOf(db').pending_cpu_usage
                 = (StateOf(db).pending_cpu_usage + last'.cpu_usage) % (UINT64_MAX + 1)
            /\ StateOf(db').pending_net_usage
                 = (StateOf(db).pending_net_usage + last'.net_usage) % (UINT64_MAX + 1)

\* Undoing the session gives the store the session started from.
C38_Undone ==
    last'.op = "undo" =>
        \E l1 \in WeightInputs, l2 \in WeightInputs, override \in {{}, {Limits(-1, INT64_MAX, INT64_MAX)}} :
            db' = UsageStore(l1, l2, override).db

C38_Step ==
    /\ last'.op = "add_transaction_usage" => (C38_AccountFailure /\ C38_BlockFailure)
    /\ C38_Undone

\* C38: add_transaction_usage does not roll itself back: failing with
\* tx_cpu_usage_exceeded or tx_net_usage_exceeded on accounts[k] it leaves
\* the usage of accounts[0..k] with the new usage added, that of later
\* accounts and both pending block totals as they were; failing with
\* block_resource_exhausted it leaves the usage of every listed account and
\* both pending totals with the new usage added; undoing the enclosing
\* session restores the store.
C38_NoRollback == [][C38_Step]_vars

\* A call that failed on the second of two accounts after charging both.
C38_Witness ==
    /\ last.op = "add_transaction_usage"
    /\ last.err \in {"tx_cpu_usage_exceeded", "tx_net_usage_exceeded"}
    /\ Len(last.accounts) = 2
    /\ last.account = last.accounts[2]
    /\ \A a \in Listed(last.accounts) : UsageOf(db, a).cpu_usage.value_ex > 0
    /\ sessions # <<>>

\* A call that failed on the block totals.
C38_WitnessBlock ==
    /\ last.op = "add_transaction_usage"
    /\ last.err = "block_resource_exhausted"
    /\ last.accounts # <<>>
    /\ StateOf(db).pending_cpu_usage > 0

\* The session undone after a call that failed in it.
C38_WitnessUndone ==
    /\ last.op = "undo"
    /\ last.after \in {"tx_cpu_usage_exceeded", "tx_net_usage_exceeded", "block_resource_exhausted"}
    /\ \A r \in db["resource_usage"] : r.cpu_usage.value_ex = 0


(***************************************************************************)
(* SpecAuth: create_permission, link_auth, unlink_auth and delete_auth     *)
(* after initialize_database, which leaves no link; hist adds up what the  *)
(* link calls returned.                                                    *)
(***************************************************************************)
AuthAccounts == {system_account_name, producers_account_name, 4}

AuthCodes == {system_account_name}

AuthNames == {active_name, 5, any_name}

AuthTypes == {0}

InitAuth ==
    /\ LET S == initialize_database
       IN  db = S.db /\ next_id = S.next_id /\ undo_stack = S.undo
    /\ sessions = <<>>
    /\ revision = 0
    /\ cache = EmptyCache
    /\ last = NoCall
    /\ hist = [billed |-> 0]

AuthCreatePermission ==
    \E account \in AuthAccounts \ {4}, permission_name \in AuthNames \ {active_name} :
      \E parent \in {p.id : p \in {q \in db["permission"] : q.owner = account /\ q.perm_name = active_name}} :
        /\ next_id["permission_usage"] + 1 < MaxPermIds
        /\ \E R \in {create_permission(Store, account, permission_name, parent, {})} :
               /\ Put(R.S)
               /\ last' = [op |-> "create_permission", err |-> R.err, ret |-> 0,
                           account |-> account, name |-> permission_name]
        /\ UNCHANGED <<sessions, cache, hist, revision>>

AuthLinkAuth ==
    \E account \in AuthAccounts, code \in AuthCodes, requirement \in AuthNames, type \in AuthTypes :
        /\ next_id["permission_link"] < MaxLinkIds
        /\ \E R \in {link_auth(Store, account, code, requirement, type)} :
               /\ Put(R.S)
               /\ last' = [op |-> "link_auth", err |-> R.err, ret |-> R.ret,
                           account |-> account, name |-> requirement]
               /\ hist' = [billed |-> hist.billed + (IF R.err = "none" THEN R.ret ELSE 0)]
        /\ UNCHANGED <<sessions, cache, revision>>

AuthUnlinkAuth ==
    \E account \in AuthAccounts, code \in AuthCodes, type \in AuthTypes :
        \E R \in {unlink_auth(Store, account, code, type)} :
            /\ Put(R.S)
            /\ last' = [op |-> "unlink_auth", err |-> R.err, ret |-> R.ret,
                        account |-> account, name |-> 0]
            /\ hist' = [billed |-> hist.billed + (IF R.err = "none" THEN R.ret ELSE 0)]
            /\ UNCHANGED <<sessions, cache, revision>>

AuthDeleteAuth ==
    \E account \in AuthAccounts, permission_name \in AuthNames :
        \E R \in {delete_auth(Store, account, permission_name)} :
            /\ Put(R.S)
            /\ last' = [op |-> "delete_auth", err |-> R.err, ret |-> R.ret,
                        account |-> account, name |-> permission_name]
            /\ UNCHANGED <<sessions, cache, hist, revision>>

NextAuth == AuthCreatePermission \/ AuthLinkAuth \/ AuthUnlinkAuth \/ AuthDeleteAuth

SpecAuth == InitAuth /\ [][NextAuth]_vars

HasPermission(d, account, permission_name) ==
    \E p \in d["permission"] : p.owner = account /\ p.perm_name = permission_name

LinksResolve(d) ==
    \A l \in d["permission_link"] :
        l.required_permission # any_name => HasPermission(d, l.account, l.required_permission)

C39_Step ==
    /\ LinksResolve(db')
    /\ (/\ last'.op = "link_auth"
        /\ last'.name # any_name
        /\ \E a \in db["account"] : a.name = last'.account
        /\ ~HasPermission(db, last'.account, last'.name))
       => (last'.err \in {"permission_query_exception", "account_query_exception"} /\ db' = db)
    /\ (/\ last'.op = "delete_auth"
        /\ \E l \in db["permission_link"] :
              l.account = last'.account /\ l.required_permission = last'.name)
       => (last'.err = "action_validate_exception" /\ db' = db)

\* C39: after any sequence of create_permission, link_auth, unlink_auth and
\* delete_auth every permission link whose required permission is not
\* any_name names a permission that exists under the account of the link:
\* link_auth refuses a permission that does not exist and delete_auth
\* refuses a permission that is still linked.
C39_LinksResolve == [][C39_Step]_vars

\* A permission created here and linked, which delete_auth then refused.
C39_Witness ==
    /\ last.op = "delete_auth"
    /\ last.err = "action_validate_exception"
    /\ last.name = 5
    /\ \E l \in db["permission_link"] : l.account = last.account /\ l.required_permission = 5
    /\ HasPermission(db, last.account, 5)

\* link_auth refused a permission that had been deleted after its link was
\* removed.
C39_WitnessRefused ==
    /\ last.op = "link_auth"
    /\ last.err = "permission_query_exception"
    /\ last.name = 5
    /\ next_id["permission"] > 9
    /\ db["permission_link"] = {}
    /\ hist.billed = 0
    /\ next_id["permission_link"] > 0


LinkRows(d) == Cardinality(d["permission_link"])

\* The link the call is about was there before it: the call keeps the number
\* of rows.
Retargeted == last'.op = "link_auth" /\ last'.err = "none" /\ LinkRows(db') = LinkRows(db)

C40_Step ==
    /\ hist'.billed = billable_size_v_permission_link_object * LinkRows(db')
    /\ Retargeted => (last'.ret = 0 /\ hist' = hist)
    /\ (last'.op \in {"link_auth", "unlink_auth"} /\ last'.err # "none") =>
           (db' = db /\ hist' = hist)

\* C40: starting from no links, the sum of what the successful link_auth and
\* unlink_auth calls returned is the billable size of a link row times the
\* number of link rows that exist; a link_auth that re-targets an existing
\* link returns 0, and a failed call adds nothing and changes nothing.
C40_LinkRamConserved == [][C40_Step]_vars

\* A link created, re-targeted and removed, and another one left.
C40_Witness ==
    /\ last.op = "unlink_auth"
    /\ last.err = "none"
    /\ next_id["permission_link"] = MaxLinkIds
    /\ LinkRows(db) = 1
    /\ hist.billed = billable_size_v_permission_link_object

\* A link re-targeted to a permission created here.
C40_WitnessRetargeted ==
    /\ last.op = "link_auth"
    /\ last.err = "none"
    /\ last.ret = 0
    /\ last.name = 5
    /\ LinkRows(db) = 1
    /\ hist.billed = billable_size_v_permission_link_object

====
